---- MODULE Spec2Model ----
(***************************************************************************)
(* Account lifecycle of the campus card application: the AuthContext       *)
(* (login / register / logout and the auth-state listener), AuthService,   *)
(* UserService, and the NFC assignment, the staff methods, the bulk        *)
(* methods and the permission predicates of AdminService and StaffService, *)
(* over two external collaborators: the Firestore "users" collection (dir) *)
(* and Firebase Auth (creds, currentUser).  Every await on an external     *)
(* call is one step: the step performs the call and runs the code that     *)
(* follows it up to the next await.                                        *)
(*                                                                         *)
(* Specifications: Spec (AuthContext), SpecCreate (register, one           *)
(* registration per role), SpecListener (SpecCreate with the listener's    *)
(* lookup and its answer as two steps), SpecNfc (assignNfcCard /           *)
(* removeNfcCard), SpecAdmin (AdminService on single records and in bulk), *)
(* SpecStaff (StaffService on one record), SpecBulk (the bulk methods),    *)
(* SpecPolicy (validateUserCanApprove / hasApprovalPermission), SpecUser    *)
(* (UserService.createUser with a profile image, deleteUser), SpecKiosk     *)
(* (the scan loop of LandingScreen and UserProfileScreen), SpecLookup      *)
(* (SpecKiosk and the two lookups called alone) and SpecKioskLive          *)
(* (SpecKiosk with the fairness of the event loop).                        *)
(***************************************************************************)
EXTENDS Integers, Sequences, FiniteSets, TLC

\* ---------------------------------------------------------------- bounds
MaxCalls == 2
MaxDocs == 2
MaxUids == 2
MaxNfcCalls == 2
MaxStaffCalls == 1
MaxBulk == 2
MaxUserCalls == 3

Calls == 1..MaxCalls
DocIds == 1..MaxDocs
Uids == 1..MaxUids
NfcCalls == 1..MaxNfcCalls
StaffCalls == 1..MaxStaffCalls
UserCalls == 1..MaxUserCalls

\* ---------------------------------------------------------------- inputs
CardNumbers == {"C-001", "C-002"}
GoodPassword == "pw123456"
\* the registrations submitted: <<email, cardNumber, role, department>>; both
\* name one card
Registrations == {<<"a@u.edu", "C-001", "student", "CS">>, <<"b@u.edu", "C-001", "admin", "CS">>}
Roles == {"student", "staff", "admin"}
Departments == {"CS", "EE"}
Passwords == {GoodPassword, "letmein"}
NfcIds == {"04A1", "04B2"}

NoUser == 0
NULL == [null |-> TRUE]
NoMsg == ""

\* ---------------------------------------------------------------- errors
\* A thrown value: `code` is the path of error.code split at "/" (empty for a
\* plain Error), `message` is error.message.
Err(code, message) == [code |-> code, message |-> message]
NoErr == Err(<<>>, NoMsg)
PlainError(message) == Err(<<>>, message)
AuthFailure(name) == Err(<<"auth", name>>, "Firebase: Error")
FirestoreFailure == Err(<<"unavailable">>, "Failed to get document because the client is offline.")

InvalidLoginMsg == "Invalid card number or password"
CardExistsMsg == "Card number already exists"
CreateProfileFailedMsg == "Failed to create user profile"
FetchByCardFailedMsg == "Failed to fetch user by card number"
FetchUserFailedMsg == "Failed to fetch user data"
ProfileNotFoundMsg == "User profile not found"
DeactivatedMsg == "Your account has been deactivated"
PendingMsg == "Your account is pending approval"
LoadUserFailedMsg == "Failed to load user data"
NfcTakenMsg == "NFC ID already assigned to another user"
AssignNfcFailedMsg == "Failed to assign NFC ID"
FetchByNfcFailedMsg == "Failed to fetch user by NFC ID"
UpdateFailedMsg == "Failed to update user"
RemoveNfcFailedMsg == "Failed to remove NFC card"

\* error.code.startsWith('auth/')
StartsWithAuth(e) == Len(e.code) >= 2 /\ e.code[1] = "auth"

\* AuthService.handleAuthError
handleAuthError(e) ==
  IF e.code = <<"auth", "email-already-in-use">> THEN "This email is already registered"
  ELSE IF e.code = <<"auth", "invalid-email">> THEN "Invalid email address"
  ELSE IF e.code = <<"auth", "operation-not-allowed">> THEN "Operation not allowed"
  ELSE IF e.code = <<"auth", "weak-password">> THEN "Password is too weak. Please use at least 6 characters"
  ELSE IF e.code = <<"auth", "user-disabled">> THEN "This account has been disabled"
  ELSE IF e.code = <<"auth", "user-not-found">> THEN "No account found with this email"
  ELSE IF e.code = <<"auth", "wrong-password">> THEN "Incorrect password"
  ELSE IF e.code = <<"auth", "invalid-credential">> THEN "Invalid email or password"
  ELSE IF e.code = <<"auth", "too-many-requests">> THEN "Too many failed attempts. Please try again later"
  ELSE IF e.message # NoMsg THEN e.message
  ELSE "An error occurred during authentication"

\* The catch block of AuthService.login, without the normalisation of
\* auth/ errors.
LoginErrorLeaky(e) ==
  IF e.message = InvalidLoginMsg THEN e.message ELSE handleAuthError(e)

\* The catch block of AuthService.login: the message of the error it throws.
LoginError(e) ==
  IF e.message = InvalidLoginMsg THEN e.message
  ELSE IF e.code # <<>> /\ StartsWithAuth(e) THEN InvalidLoginMsg
  ELSE handleAuthError(e)

\* ---------------------------------------------------------------- state
VARIABLES
  dir,          \* Firestore "users" collection: document id -> document
  creds,        \* Firebase Auth accounts: uid -> [email, password]
  uidCount,     \* number of uids Firebase Auth has issued
  currentUser,  \* auth.currentUser (a uid, or NoUser)
  user,         \* AuthContext: user
  firebaseUser, \* AuthContext: firebaseUser (a uid, or NoUser)
  error,        \* AuthContext: error
  calls,        \* the login / register / logout calls, one per slot, started in slot order
  listeners,    \* uids whose onAuthStateChanged callback awaits its directory lookup
  nfcCalls,     \* assignNfcCard / removeNfcCard calls, one per slot
  staffCalls,   \* StaffService single-record calls, one per slot
  bulk,         \* the bulk call (AdminService / StaffService ...Bulk)
  verdict,      \* the User handed to the permission predicates and what they returned
  userCalls,    \* UserService.createUser / deleteUser calls, one per slot
  landing,      \* LandingScreen: the scanning effect, its loop and the NFC reader
  profile       \* UserProfileScreen: the route parameters and what loadUser set

adminVars == <<staffCalls, bulk, verdict>>
appVars == <<userCalls, landing, profile>>
vars == <<dir, creds, uidCount, currentUser, user, firebaseUser, error, calls, listeners, nfcCalls, adminVars, appVars>>
authVars == <<creds, uidCount, currentUser, user, firebaseUser, error, calls, listeners>>

\* --------------------------------------------------------- the directory
NoNfc == ""

\* canApproveStudents is true, false or absent (undefined) on a document and on
\* a User object
Undefined == "undefined"
True == "true"
False == "false"

\* The document written by UserService.createUser (userService.ts 50-72), as
\* the getUserBy... readers build a User from it (uid is the document id;
\* a field the document lacks reads as undefined).
NewUserData(id, authUid, email, cardNumber, role, department) ==
  [uid |-> id, authUid |-> authUid, email |-> email, cardNumber |-> cardNumber,
   role |-> role, department |-> department,
   isActive |-> TRUE, isApproved |-> (IF role = "admin" THEN TRUE ELSE FALSE), nfcId |-> NoNfc,
   canApproveStudents |-> IF role = "staff" THEN False ELSE Undefined]

\* The User object UserService.createUser returns (userService.ts 76-90): it
\* names neither nfcId nor canApproveStudents.
CreatedUser(id, authUid, email, cardNumber, role, department) ==
  [uid |-> id, authUid |-> authUid, email |-> email, cardNumber |-> cardNumber,
   role |-> role, department |-> department,
   isActive |-> TRUE, isApproved |-> (IF role = "admin" THEN TRUE ELSE FALSE), nfcId |-> NoNfc,
   canApproveStudents |-> Undefined]

Min(S) == CHOOSE x \in S : \A y \in S : x <= y

\* querySnapshot.docs[0] of a query, or null when the snapshot is empty
FirstDoc(d, ids) == IF ids = {} THEN NULL ELSE d[Min(ids)]

getUserByCardNumber(d, cardNumber) ==
  IF cardNumber = "" THEN NULL
  ELSE FirstDoc(d, {i \in DOMAIN d : d[i].cardNumber = cardNumber})

getUserByAuthUid(d, authUid) ==
  FirstDoc(d, {i \in DOMAIN d : d[i].authUid = authUid})

getUserByNfcId(d, nfcId) ==
  IF nfcId = "" THEN NULL
  ELSE FirstDoc(d, {i \in DOMAIN d : d[i].nfcId = nfcId})

\* doc(collection(db, 'users')): the references with a fresh auto-generated id
NewDocRefs(d) == DocIds \ DOMAIN d

\* setDoc(userRef, newUserData), were the document keyed by its card number:
\* the write replaces the document that holds the card number.
setDocByCard(d, id, data) ==
  LET held == {i \in DOMAIN d : d[i].cardNumber = data.cardNumber}
      at == IF held = {} THEN id ELSE CHOOSE i \in held : TRUE
  IN  [i \in DOMAIN d \cup {at} |-> IF i = at THEN [data EXCEPT !.uid = at] ELSE d[i]]

\* setDoc(userRef, newUserData)
setDoc(d, id, data) == [i \in DOMAIN d \cup {id} |-> IF i = id THEN data ELSE d[i]]

\* updateDoc(userRef, updateData) with one changed field (updatedAt is not modelled)
updateUser(d, id, field, value) == [d EXCEPT ![id] = [@ EXCEPT ![field] = value]]

\* ------------------------------------------------------------- the calls
IdleCall ==
  [op |-> "none", pc |-> "idle", email |-> "", password |-> "", cardNumber |-> "",
   role |-> "", department |-> "", cred |-> NoUser, fbUser |-> NoUser, userData |-> NULL,
   raw |-> NoErr, pending |-> NoMsg, err |-> NoMsg, resubmitted |-> FALSE]

IdleNfcCall == [op |-> "none", pc |-> "idle", uid |-> 0, nfcId |-> "", holder |-> 0, raw |-> NoErr, err |-> NoMsg]

IdleStaffCall == [op |-> "none", pc |-> "idle", staffUser |-> NULL, studentUid |-> 0, err |-> NoMsg]

IdleBulk ==
  [op |-> "none", pc |-> "idle", staffUser |-> NULL, uids |-> <<>>, departmentStudentIds |-> {},
   task |-> <<>>, success |-> 0, failed |-> 0, result |-> NULL, err |-> NoMsg]

\* what a predicate returned is held as a set: empty until it is called
NoVerdict == [user |-> NULL, validateUserCanApprove |-> {}, hasApprovalPermission |-> {}]

\* the value of the variables of a service that no step of a specification
\* calls
NoCalls == <<>>

\* no call of StaffService, of a bulk method or of a permission predicate has
\* been made
AdminIdle ==
  /\ staffCalls = [s \in StaffCalls |-> IdleStaffCall]
  /\ bulk = IdleBulk
  /\ verdict = NoVerdict

\* AdminService and StaffService are not called
AdminUnused ==
  /\ staffCalls = NoCalls
  /\ bulk = NoCalls
  /\ verdict = NoCalls

\* UserService is not called directly and the kiosk screens are not shown
AppUnused ==
  /\ userCalls = NoCalls
  /\ landing = NoCalls
  /\ profile = NoCalls

Init ==
  /\ dir = <<>>
  /\ creds = <<>>
  /\ uidCount = 0
  /\ currentUser = NoUser
  /\ user = NULL
  /\ firebaseUser = NoUser
  /\ error = NoMsg
  /\ calls = [c \in Calls |-> IdleCall]
  /\ listeners = {}
  /\ nfcCalls = NoCalls
  /\ AdminUnused
  /\ AppUnused

\* ------------------------------------------------- the auth-state listener
\* The callback of onAuthStateChanged, run when auth.currentUser changes from
\* `old` to `new`: its synchronous part (setFirebaseUser, and setUser(null)
\* when signed out); for a signed-in user the directory lookup is left pending.
AuthStateChanged(old, new) ==
  IF new = old THEN [fb |-> firebaseUser, user |-> user, ls |-> listeners]
  ELSE IF new = NoUser THEN [fb |-> NoUser, user |-> NULL, ls |-> listeners]
  ELSE [fb |-> new, user |-> user,
        ls |-> listeners \cup {new}]

\* auth.currentUser becomes `new`, and the listener is notified
SetCurrentUser(new) ==
  LET n == AuthStateChanged(currentUser, new)
  IN  /\ currentUser' = new
      /\ firebaseUser' = n.fb
      /\ user' = n.user
      /\ listeners' = n.ls

\* The callback resumes from await UserService.getUserByAuthUid(firebaseUser.uid):
\* setUser(userData), or setError in its catch when the lookup failed
ListenerLookup(l) ==
  /\ l \in listeners
  /\ listeners' = listeners \ {l}
  /\ \/ /\ user' = getUserByAuthUid(dir, l)
        /\ UNCHANGED error
     \/ /\ error' = LoadUserFailedMsg
        /\ UNCHANGED user
  /\ UNCHANGED <<dir, creds, uidCount, currentUser, firebaseUser, calls, nfcCalls, adminVars, appVars>>

\* ------------------------------------------------------------ failures
\* what signInWithEmailAndPassword rejects with
SignInFailures(email, password) ==
  {AuthFailure("network-request-failed"), PlainError("Network request failed")}
    \cup (IF \E k \in DOMAIN creds : creds[k].email = email
          THEN IF \E k \in DOMAIN creds : creds[k].email = email /\ creds[k].password = password
               THEN {} ELSE {AuthFailure("wrong-password")}
          ELSE {AuthFailure("user-not-found")})

\* what createUserWithEmailAndPassword rejects with
CreateFailures(email) ==
  {AuthFailure("network-request-failed")}
    \cup (IF \E k \in DOMAIN creds : creds[k].email = email
          THEN {AuthFailure("email-already-in-use")} ELSE {})

\* what signOut, updateProfile and user.delete reject with
SignOutFailure == AuthFailure("network-request-failed")
UpdateProfileFailure == AuthFailure("network-request-failed")
DeleteFailure == AuthFailure("requires-recent-login")

\* The call ends: its promise rejects with message `msg` (or resolves when msg
\* is NoMsg); `raw` is the error first caught on the way.  The slot keeps the
\* operation, its card number and the outcome.
Finished(call, raw, msg) ==
  [IdleCall EXCEPT !.op = call.op, !.cardNumber = call.cardNumber,
                   !.pc = "done", !.raw = raw, !.err = msg]

\* slot c is free and every slot before it is taken
CanStart(c) == calls[c].pc = "idle" /\ \A b \in Calls : b < c => calls[b].pc # "idle"

\* ------------------------------------------------------------------ login
\* The checks of AuthContext.login on the record of the signed-in credential,
\* without the approval check.
LoginGateNoApproval(u) ==
  IF u = NULL THEN ProfileNotFoundMsg
  ELSE IF ~u.isActive THEN DeactivatedMsg
  ELSE NoMsg

\* The checks of AuthContext.login on the record of the signed-in credential:
\* the message of the error it throws, NoMsg when the record passes.
LoginGate(u) ==
  IF u = NULL THEN ProfileNotFoundMsg
  ELSE IF ~u.isActive THEN DeactivatedMsg
  ELSE IF ~u.isApproved THEN PendingMsg
  ELSE NoMsg

\* login(credentials) is called: setLoading(true); setError(null)
LoginStart(c, cardNumber, password) ==
  /\ CanStart(c)
  /\ calls' = [calls EXCEPT ![c] = [IdleCall EXCEPT !.op = "login", !.pc = "L_lookup",
                                     !.cardNumber = cardNumber, !.password = password]]
  /\ error' = NoMsg
  /\ UNCHANGED <<dir, creds, uidCount, currentUser, user, firebaseUser, listeners, nfcCalls, adminVars, appVars>>

\* AuthService.login: await UserService.getUserByCardNumber(cardNumber)
LoginLookup(c) ==
  /\ calls[c].pc = "L_lookup"
  /\ \/ \* the query fails: getUserByCardNumber throws its own Error
        LET raw == PlainError(FetchByCardFailedMsg)
        IN  /\ calls' = [calls EXCEPT ![c] = Finished(@, raw, LoginError(raw))]
            /\ error' = LoginError(raw)
     \/ LET u == getUserByCardNumber(dir, calls[c].cardNumber)
            raw == PlainError(InvalidLoginMsg)
        IN  IF u = NULL
            THEN /\ calls' = [calls EXCEPT ![c] = Finished(@, raw, LoginError(raw))]
                 /\ error' = LoginError(raw)
            ELSE /\ calls' = [calls EXCEPT ![c].pc = "L_signin", ![c].email = u.email]
                 /\ UNCHANGED error
  /\ UNCHANGED <<dir, creds, uidCount, currentUser, user, firebaseUser, listeners, nfcCalls, adminVars, appVars>>

\* AuthService.login: await signInWithEmailAndPassword(auth, user.email, password)
LoginSignIn(c) ==
  /\ calls[c].pc = "L_signin"
  /\ \/ \E k \in DOMAIN creds :
          /\ creds[k].email = calls[c].email
          /\ creds[k].password = calls[c].password
          /\ SetCurrentUser(k)
          /\ calls' = [calls EXCEPT ![c].pc = "L_fetch", ![c].fbUser = k]
          /\ UNCHANGED error
     \/ \E raw \in SignInFailures(calls[c].email, calls[c].password) :
          /\ calls' = [calls EXCEPT ![c] = Finished(@, raw, LoginError(raw))]
          /\ error' = LoginError(raw)
          /\ UNCHANGED <<currentUser, user, firebaseUser, listeners>>
  /\ UNCHANGED <<dir, creds, uidCount, nfcCalls, adminVars, appVars>>

\* AuthContext.login: await UserService.getUserByAuthUid(firebaseUser.uid),
\* then the checks on the record; a record that passes becomes the user
LoginFetch(c) ==
  /\ calls[c].pc = "L_fetch"
  /\ \/ LET raw == PlainError(FetchUserFailedMsg)
        IN  /\ calls' = [calls EXCEPT ![c] = Finished(@, raw, raw.message)]
            /\ error' = raw.message
            /\ UNCHANGED <<user, firebaseUser>>
     \/ LET u == getUserByAuthUid(dir, calls[c].fbUser)
            gate == LoginGate(u)
        IN  IF gate = NoMsg
            THEN /\ calls' = [calls EXCEPT ![c] = Finished([@ EXCEPT !.userData = u], NoErr, NoMsg)]
                 /\ user' = u
                 /\ firebaseUser' = calls[c].fbUser
                 /\ UNCHANGED error
            ELSE IF u = NULL
            THEN /\ calls' = [calls EXCEPT ![c] = Finished(@, PlainError(gate), gate)]
                 /\ error' = gate
                 /\ UNCHANGED <<user, firebaseUser>>
            ELSE /\ calls' = [calls EXCEPT ![c].pc = "L_logout", ![c].userData = u, ![c].pending = gate]
                 /\ UNCHANGED <<error, user, firebaseUser>>
  /\ UNCHANGED <<dir, creds, uidCount, currentUser, listeners, nfcCalls, adminVars, appVars>>

\* AuthContext.login: await AuthService.logout() for a deactivated or
\* unapproved record, then throw the pending error
LoginLogout(c) ==
  /\ calls[c].pc = "L_logout"
  /\ \/ /\ SetCurrentUser(NoUser)
        /\ calls' = [calls EXCEPT ![c] = Finished(@, PlainError(calls[c].pending), calls[c].pending)]
        /\ error' = calls[c].pending
     \/ \* signOut rejects: AuthService.logout throws handleAuthError(error)
        /\ calls' = [calls EXCEPT ![c] = Finished(@, SignOutFailure, handleAuthError(SignOutFailure))]
        /\ error' = handleAuthError(SignOutFailure)
        /\ UNCHANGED <<currentUser, user, firebaseUser, listeners>>
  /\ UNCHANGED <<dir, creds, uidCount, nfcCalls, adminVars, appVars>>

\* --------------------------------------------------------------- register
\* The catch block of UserService.createUser: the message of the error thrown
CreateUserError(raw) ==
  IF raw.message = CardExistsMsg THEN raw.message ELSE CreateProfileFailedMsg

\* The error register throws after its rollback, were a failure of the
\* compensation (delete, sign-out) left to replace the first error.
RollbackErrorLast(primary, compensation) ==
  IF compensation = NoErr THEN primary ELSE handleAuthError(compensation)

\* The error register throws after its rollback: `throw err`, err being the
\* error caught first; the failures of the compensation are only logged.
RollbackError(primary, compensation) == primary

\* createUserWithEmailAndPassword rejected with `raw`, were the error only
\* logged and register left to go on to UserService.createUser.
RegisterRejectedGoesOn(call, raw) == [call EXCEPT !.pc = "R_check"]

\* createUserWithEmailAndPassword rejected with `raw`: AuthService.register
\* throws handleAuthError(raw); register catches it with no firebaseUser to
\* roll back and throws it again.
RegisterRejected(call, raw) == Finished(call, raw, handleAuthError(raw))

\* register(userData) is called: setLoading(true); setError(null)
RegisterStart(c, email, cardNumber, role, department) ==
  /\ CanStart(c)
  /\ calls' = [calls EXCEPT ![c] =
                 [IdleCall EXCEPT !.op = "register", !.pc = "R_create", !.email = email,
                                  !.password = GoodPassword, !.cardNumber = cardNumber, !.role = role,
                                  !.department = department,
                                  !.resubmitted = \E i \in DOMAIN dir :
                                      dir[i].email = email /\ dir[i].cardNumber = cardNumber]]
  /\ error' = NoMsg
  /\ UNCHANGED <<dir, creds, uidCount, currentUser, user, firebaseUser, listeners, nfcCalls, adminVars, appVars>>

\* AuthService.register: await createUserWithEmailAndPassword(auth, email, password);
\* the new credential is signed in
RegisterCreate(c) ==
  /\ calls[c].pc = "R_create"
  /\ \/ /\ \A k \in DOMAIN creds : creds[k].email # calls[c].email
        /\ uidCount < MaxUids
        /\ LET k == uidCount + 1
           IN  /\ creds' = [i \in DOMAIN creds \cup {k} |->
                              IF i = k THEN [email |-> calls[c].email, password |-> calls[c].password]
                              ELSE creds[i]]
               /\ uidCount' = k
               /\ SetCurrentUser(k)
               /\ calls' = [calls EXCEPT ![c].pc = "R_profile", ![c].cred = k]
        /\ UNCHANGED error
     \/ \E raw \in CreateFailures(calls[c].email) :
          /\ calls' = [calls EXCEPT ![c] = RegisterRejected(@, raw)]
          /\ error' = handleAuthError(raw)
          /\ UNCHANGED <<creds, uidCount, currentUser, user, firebaseUser, listeners>>
  /\ UNCHANGED <<dir, nfcCalls, adminVars, appVars>>

\* AuthService.register: await updateProfile(userCredential.user, {displayName});
\* on success AuthService.register returns and register holds firebaseUser
RegisterUpdateProfile(c) ==
  /\ calls[c].pc = "R_profile"
  /\ \/ /\ calls' = [calls EXCEPT ![c].pc = "R_check", ![c].fbUser = calls[c].cred]
        /\ UNCHANGED error
     \/ /\ calls' = [calls EXCEPT ![c] = Finished(@, UpdateProfileFailure, handleAuthError(UpdateProfileFailure))]
        /\ error' = handleAuthError(UpdateProfileFailure)
  /\ UNCHANGED <<dir, creds, uidCount, currentUser, user, firebaseUser, listeners, nfcCalls, adminVars, appVars>>

\* UserService.createUser: await this.getUserByCardNumber(userData.cardNumber);
\* a failure of createUser sends register to its rollback
CreateUserCheck(c) ==
  /\ calls[c].pc = "R_check"
  /\ \/ LET raw == PlainError(FetchByCardFailedMsg)
        IN  calls' = [calls EXCEPT ![c].pc = "R_delete", ![c].raw = raw, ![c].pending = CreateUserError(raw)]
     \/ LET raw == PlainError(CardExistsMsg)
        IN  IF getUserByCardNumber(dir, calls[c].cardNumber) # NULL
            THEN calls' = [calls EXCEPT ![c].pc = "R_delete", ![c].raw = raw, ![c].pending = CreateUserError(raw)]
            ELSE calls' = [calls EXCEPT ![c].pc = "R_write"]
  /\ UNCHANGED <<dir, creds, uidCount, currentUser, user, firebaseUser, error, listeners, nfcCalls, adminVars, appVars>>

\* UserService.createUser: await setDoc(userRef, newUserData); on success
\* register runs setUser(newUser); setFirebaseUser(firebaseUser)
CreateUserWrite(c) ==
  /\ calls[c].pc = "R_write"
  /\ \/ \E id \in NewDocRefs(dir) :
          LET newUserData == NewUserData(id, calls[c].fbUser, calls[c].email, calls[c].cardNumber,
                                         calls[c].role, calls[c].department)
              newUser == CreatedUser(id, calls[c].fbUser, calls[c].email, calls[c].cardNumber,
                                     calls[c].role, calls[c].department)
          IN  /\ dir' = setDoc(dir, id, newUserData)
              /\ user' = newUser
              /\ firebaseUser' = calls[c].fbUser
              /\ calls' = [calls EXCEPT ![c] = Finished([@ EXCEPT !.userData = newUser], NoErr, NoMsg)]
     \/ /\ calls' = [calls EXCEPT ![c].pc = "R_delete", ![c].raw = FirestoreFailure,
                                   ![c].pending = CreateUserError(FirestoreFailure)]
        /\ UNCHANGED <<dir, user, firebaseUser>>
  /\ UNCHANGED <<creds, uidCount, currentUser, error, listeners, nfcCalls, adminVars, appVars>>

\* register, rollback: await firebaseUser.delete(); the deleted account is
\* signed out; on success the first error is thrown
RegisterDelete(c) ==
  /\ calls[c].pc = "R_delete"
  /\ \/ /\ creds' = [k \in DOMAIN creds \ {calls[c].fbUser} |-> creds[k]]
        /\ SetCurrentUser(NoUser)
        /\ calls' = [calls EXCEPT ![c] = Finished(@, calls[c].raw, RollbackError(calls[c].pending, NoErr))]
        /\ error' = RollbackError(calls[c].pending, NoErr)
     \/ /\ calls' = [calls EXCEPT ![c].pc = "R_logout"]
        /\ UNCHANGED <<creds, currentUser, user, firebaseUser, error, listeners>>
  /\ UNCHANGED <<dir, uidCount, nfcCalls, adminVars, appVars>>

\* register, rollback: the delete failed (DeleteFailure): await AuthService.logout(),
\* whose failure is logged; the first error is thrown
RegisterLogout(c) ==
  /\ calls[c].pc = "R_logout"
  /\ \/ /\ SetCurrentUser(NoUser)
        /\ calls' = [calls EXCEPT ![c] = Finished(@, calls[c].raw, RollbackError(calls[c].pending, DeleteFailure))]
        /\ error' = RollbackError(calls[c].pending, DeleteFailure)
     \/ /\ calls' = [calls EXCEPT ![c] = Finished(@, calls[c].raw, RollbackError(calls[c].pending, SignOutFailure))]
        /\ error' = RollbackError(calls[c].pending, SignOutFailure)
        /\ UNCHANGED <<currentUser, user, firebaseUser, listeners>>
  /\ UNCHANGED <<dir, creds, uidCount, nfcCalls, adminVars, appVars>>

\* ----------------------------------------------------------------- logout
\* logout() is called: setLoading(true); setError(null)
LogoutStart(c) ==
  /\ CanStart(c)
  /\ calls' = [calls EXCEPT ![c] = [IdleCall EXCEPT !.op = "logout", !.pc = "O_signout"]]
  /\ error' = NoMsg
  /\ UNCHANGED <<dir, creds, uidCount, currentUser, user, firebaseUser, listeners, nfcCalls, adminVars, appVars>>

\* AuthContext.logout: await AuthService.logout(); setUser(null); setFirebaseUser(null)
LogoutSignOut(c) ==
  /\ calls[c].pc = "O_signout"
  /\ \/ /\ currentUser' = NoUser
        /\ user' = NULL
        /\ firebaseUser' = NoUser
        /\ calls' = [calls EXCEPT ![c] = Finished(@, NoErr, NoMsg)]
        /\ UNCHANGED error
     \/ /\ calls' = [calls EXCEPT ![c] = Finished(@, SignOutFailure, handleAuthError(SignOutFailure))]
        /\ error' = handleAuthError(SignOutFailure)
        /\ UNCHANGED <<currentUser, user, firebaseUser>>
  /\ UNCHANGED <<dir, creds, uidCount, listeners, nfcCalls, adminVars, appVars>>

\* ------------------------------------------------- administrative updates
\* UserService.approveUser(uid): updateUser(uid, {isApproved: true})
approveUser(id) ==
  /\ id \in DOMAIN dir
  /\ dir' = updateUser(dir, id, "isApproved", TRUE)
  /\ UNCHANGED <<authVars, nfcCalls, adminVars, appVars>>

\* UserService.deactivateUser(uid): updateUser(uid, {isActive: false})
deactivateUser(id) ==
  /\ id \in DOMAIN dir
  /\ dir' = updateUser(dir, id, "isActive", FALSE)
  /\ UNCHANGED <<authVars, nfcCalls, adminVars, appVars>>

\* ------------------------------------------------------ the specification
Next ==
  \/ \E c \in Calls, cardNumber \in CardNumbers, password \in Passwords : LoginStart(c, cardNumber, password)
  \/ \E c \in Calls : LoginLookup(c)
  \/ \E c \in Calls : LoginSignIn(c)
  \/ \E c \in Calls : LoginFetch(c)
  \/ \E c \in Calls : LoginLogout(c)
  \/ \E c \in Calls, r \in Registrations : RegisterStart(c, r[1], r[2], r[3], r[4])
  \/ \E c \in Calls : RegisterCreate(c)
  \/ \E c \in Calls : RegisterUpdateProfile(c)
  \/ \E c \in Calls : CreateUserCheck(c)
  \/ \E c \in Calls : CreateUserWrite(c)
  \/ \E c \in Calls : RegisterDelete(c)
  \/ \E c \in Calls : RegisterLogout(c)
  \/ \E c \in Calls : LogoutStart(c)
  \/ \E c \in Calls : LogoutSignOut(c)
  \/ \E l \in listeners : ListenerLookup(l)
  \/ \E id \in DocIds : approveUser(id)
  \/ \E id \in DocIds : deactivateUser(id)

Spec == Init /\ [][Next]_vars

\* ------------------------------------------- registration, one per role
\* a registration of each role: <<email, cardNumber, role, department>>
RoleRegistrations ==
  {<<"a@u.edu", "C-001", "student", "CS">>, <<"b@u.edu", "C-002", "staff", "CS">>,
   <<"c@u.edu", "C-003", "admin", "EE">>}

NextCreate ==
  \/ \E c \in Calls, r \in RoleRegistrations : RegisterStart(c, r[1], r[2], r[3], r[4])
  \/ \E c \in Calls : RegisterCreate(c)
  \/ \E c \in Calls : RegisterUpdateProfile(c)
  \/ \E c \in Calls : CreateUserCheck(c)
  \/ \E c \in Calls : CreateUserWrite(c)
  \/ \E c \in Calls : RegisterDelete(c)
  \/ \E c \in Calls : RegisterLogout(c)
  \/ \E l \in listeners : ListenerLookup(l)

SpecCreate == Init /\ [][NextCreate]_vars

\* ------------------------------ registration, the listener's lookup apart
\* The lookup of the listener's callback in two steps: Firestore evaluates the
\* query of getUserByAuthUid, and later the callback resumes with the answer.
\* Here userCalls is the set of the answers the callback has not resumed with.

\* Firestore answers UserService.getUserByAuthUid(l) from the documents it
\* holds now, or the lookup fails
ListenerQuery(l) ==
  /\ l \in listeners
  /\ listeners' = listeners \ {l}
  /\ \E failed \in BOOLEAN :
       userCalls' = userCalls \cup
         {[authUid |-> l, userData |-> IF failed THEN NULL ELSE getUserByAuthUid(dir, l), failed |-> failed]}
  /\ UNCHANGED <<dir, creds, uidCount, currentUser, user, firebaseUser, error, calls, nfcCalls, adminVars, landing, profile>>

\* The callback resumes from the await: setUser(userData), or setError in its
\* catch when the lookup failed
ListenerResume(a) ==
  /\ a \in userCalls
  /\ userCalls' = userCalls \ {a}
  /\ IF a.failed
       THEN error' = LoadUserFailedMsg /\ UNCHANGED user
       ELSE user' = a.userData /\ UNCHANGED error
  /\ UNCHANGED <<dir, creds, uidCount, currentUser, firebaseUser, calls, listeners, nfcCalls, adminVars, landing, profile>>

InitListener ==
  /\ dir = <<>>
  /\ creds = <<>>
  /\ uidCount = 0
  /\ currentUser = NoUser
  /\ user = NULL
  /\ firebaseUser = NoUser
  /\ error = NoMsg
  /\ calls = [c \in Calls |-> IdleCall]
  /\ listeners = {}
  /\ nfcCalls = NoCalls
  /\ AdminUnused
  /\ userCalls = {}
  /\ landing = NoCalls
  /\ profile = NoCalls

NextListener ==
  \/ \E c \in Calls, r \in RoleRegistrations : RegisterStart(c, r[1], r[2], r[3], r[4])
  \/ \E c \in Calls : RegisterCreate(c)
  \/ \E c \in Calls : RegisterUpdateProfile(c)
  \/ \E c \in Calls : CreateUserCheck(c)
  \/ \E c \in Calls : CreateUserWrite(c)
  \/ \E c \in Calls : RegisterDelete(c)
  \/ \E c \in Calls : RegisterLogout(c)
  \/ \E l \in listeners : ListenerQuery(l)
  \/ \E a \in userCalls : ListenerResume(a)

SpecListener == InitListener /\ [][NextListener]_vars

\* ---------------------------------------------------------- NFC assignment
\* The catch block of UserService.assignNfcId: the message of the error thrown
AssignNfcIdError(raw) == AssignNfcFailedMsg

\* The catch block of AdminService.assignNfcCard: error.message || 'Failed to assign NFC card'
AssignNfcCardError(msg) == IF msg # NoMsg THEN msg ELSE "Failed to assign NFC card"

\* the call ends with the error first caught (`raw`) and the message thrown
NfcFinished(call, raw, msg) == [call EXCEPT !.pc = "done", !.raw = raw, !.err = msg]

\* AdminService.assignNfcCard(uid, nfcId) is called
AssignStart(n, uid, nfcId) ==
  /\ nfcCalls[n].pc = "idle"
  /\ \A m \in NfcCalls : m < n => nfcCalls[m].pc # "idle"
  /\ nfcCalls' = [nfcCalls EXCEPT ![n] = [IdleNfcCall EXCEPT !.op = "assignNfcCard", !.pc = "A_lookup",
                                                       !.uid = uid, !.nfcId = nfcId]]
  /\ UNCHANGED <<dir, authVars, adminVars, appVars>>

\* UserService.assignNfcId: await this.getUserByNfcId(nfcId), then the check
\* that no other user holds the id
AssignLookup(n) ==
  /\ nfcCalls[n].pc = "A_lookup"
  /\ \/ LET raw == PlainError(FetchByNfcFailedMsg)
        IN  nfcCalls' = [nfcCalls EXCEPT ![n] = NfcFinished(@, raw, AssignNfcCardError(AssignNfcIdError(raw)))]
     \/ LET existingUser == getUserByNfcId(dir, nfcCalls[n].nfcId)
            raw == PlainError(NfcTakenMsg)
        IN  IF existingUser # NULL /\ existingUser.uid # nfcCalls[n].uid
            THEN nfcCalls' = [nfcCalls EXCEPT ![n] =
                   NfcFinished([@ EXCEPT !.holder = existingUser.uid], raw,
                               AssignNfcCardError(AssignNfcIdError(raw)))]
            ELSE nfcCalls' = [nfcCalls EXCEPT ![n].pc = "A_update",
                                             ![n].holder = IF existingUser = NULL THEN 0 ELSE existingUser.uid]
  /\ UNCHANGED <<dir, authVars, adminVars, appVars>>

\* UserService.assignNfcId: await this.updateUser(uid, {nfcId})
AssignUpdate(n) ==
  /\ nfcCalls[n].pc = "A_update"
  /\ \/ /\ nfcCalls[n].uid \in DOMAIN dir
        /\ dir' = updateUser(dir, nfcCalls[n].uid, "nfcId", nfcCalls[n].nfcId)
        /\ nfcCalls' = [nfcCalls EXCEPT ![n] = NfcFinished(@, NoErr, NoMsg)]
     \/ LET raw == PlainError(UpdateFailedMsg)
        IN  /\ nfcCalls' = [nfcCalls EXCEPT ![n] = NfcFinished(@, raw, AssignNfcCardError(AssignNfcIdError(raw)))]
            /\ UNCHANGED dir
  /\ UNCHANGED <<authVars, adminVars, appVars>>

\* AdminService.removeNfcCard(uid) is called
RemoveStart(n, uid) ==
  /\ nfcCalls[n].pc = "idle"
  /\ \A m \in NfcCalls : m < n => nfcCalls[m].pc # "idle"
  /\ nfcCalls' = [nfcCalls EXCEPT ![n] = [IdleNfcCall EXCEPT !.op = "removeNfcCard", !.pc = "X_update", !.uid = uid]]
  /\ UNCHANGED <<dir, authVars, adminVars, appVars>>

\* AdminService.removeNfcCard: await UserService.updateUser(uid, {nfcId: undefined}).
\* updateDoc is handed {nfcId: undefined, updatedAt}: Firestore either rejects
\* the undefined field value, or (configured with ignoreUndefinedProperties)
\* leaves the field out of the update and writes updatedAt alone.  The
\* document keeps its nfcId in both cases.
RemoveUpdate(n) ==
  /\ nfcCalls[n].pc = "X_update"
  /\ \/ /\ nfcCalls[n].uid \in DOMAIN dir
        /\ nfcCalls' = [nfcCalls EXCEPT ![n] = NfcFinished(@, NoErr, NoMsg)]
     \/ LET raw == PlainError(UpdateFailedMsg)
        IN  nfcCalls' = [nfcCalls EXCEPT ![n] = NfcFinished(@, raw, RemoveNfcFailedMsg)]
  /\ UNCHANGED <<dir, authVars, adminVars, appVars>>

\* a directory of two registered users with their credentials
SeedDir ==
  (1 :> NewUserData(1, 1, "a@u.edu", "C-001", "student", "CS")) @@
  (2 :> NewUserData(2, 2, "b@u.edu", "C-002", "staff", "CS"))

InitNfc ==
  /\ dir = SeedDir
  /\ creds = [k \in DOMAIN SeedDir |-> [email |-> SeedDir[k].email, password |-> GoodPassword]]
  /\ uidCount = Cardinality(DOMAIN SeedDir)
  /\ currentUser = NoUser
  /\ user = NULL
  /\ firebaseUser = NoUser
  /\ error = NoMsg
  /\ calls = [c \in Calls |-> IdleCall]
  /\ listeners = {}
  /\ nfcCalls = [n \in NfcCalls |-> IdleNfcCall]
  /\ AdminUnused
  /\ AppUnused

NextNfc ==
  \/ \E n \in NfcCalls, uid \in DOMAIN SeedDir, nfcId \in NfcIds : AssignStart(n, uid, nfcId)
  \/ \E n \in NfcCalls : AssignLookup(n)
  \/ \E n \in NfcCalls : AssignUpdate(n)
  \/ \E n \in NfcCalls, uid \in DOMAIN SeedDir : RemoveStart(n, uid)
  \/ \E n \in NfcCalls : RemoveUpdate(n)

SpecNfc == InitNfc /\ [][NextNfc]_vars

\* ------------------------------------------------- StaffService, one record
OnlyStaffApproveMsg == "Only staff members can approve students"
NoApprovePermissionMsg == "You do not have permission to approve students"
NoActivatePermissionMsg == "You do not have permission to activate students"
NoDeactivatePermissionMsg == "You do not have permission to deactivate students"
StudentNotFoundMsg == "Student not found"
OnlyStudentsMsg == "Can only approve students"
ApproveOtherDepartmentMsg == "Can only approve students in your department"
ActivateOtherDepartmentMsg == "Can only activate students in your department"
DeactivateOtherDepartmentMsg == "Can only deactivate students in your department"
ApproveUserFailedMsg == "Failed to approve user"
DeactivateUserFailedMsg == "Failed to deactivate user"

StaffOps == {"approveStudent", "activateStudent", "deactivateStudent"}

\* The checks a StaffService method makes on staffUser before its first await:
\* the message of the error thrown, NoMsg when staffUser passes.
StaffUserCheck(op, staffUser) ==
  IF op = "approveStudent"
  THEN IF staffUser.role # "staff" THEN OnlyStaffApproveMsg
       ELSE IF staffUser.canApproveStudents # True THEN NoApprovePermissionMsg
       ELSE NoMsg
  ELSE IF staffUser.canApproveStudents # True
       THEN IF op = "activateStudent" THEN NoActivatePermissionMsg ELSE NoDeactivatePermissionMsg
       ELSE NoMsg

\* The checks of approveStudent on the record read, without the comparison of
\* the departments.
StudentCheckAnyDepartment(op, staffUser, student) ==
  IF student = NULL THEN StudentNotFoundMsg
  ELSE IF op = "approveStudent" /\ student.role # "student" THEN OnlyStudentsMsg
  ELSE NoMsg

\* The checks a StaffService method makes on the record getUserByUid returned:
\* the message of the error thrown, NoMsg when the record passes.
StudentCheck(op, staffUser, student) ==
  IF student = NULL THEN StudentNotFoundMsg
  ELSE IF op = "approveStudent" /\ student.role # "student" THEN OnlyStudentsMsg
  ELSE IF student.department # staffUser.department
       THEN IF op = "approveStudent" THEN ApproveOtherDepartmentMsg
            ELSE IF op = "activateStudent" THEN ActivateOtherDepartmentMsg
            ELSE DeactivateOtherDepartmentMsg
  ELSE NoMsg

\* getDoc(doc(db, 'users', uid)): the User of the document, null when it does
\* not exist
getUserByUid(d, uid) == IF uid \in DOMAIN d THEN d[uid] ELSE NULL

\* the message of the error the update of a StaffService method fails with
StaffUpdateError(op) ==
  IF op = "approveStudent" THEN ApproveUserFailedMsg
  ELSE IF op = "activateStudent" THEN UpdateFailedMsg
  ELSE DeactivateUserFailedMsg

\* the update of a StaffService method: approveUser, updateUser({isActive: true}),
\* deactivateUser
StaffUpdate(d, op, uid) ==
  IF op = "approveStudent" THEN updateUser(d, uid, "isApproved", TRUE)
  ELSE IF op = "activateStudent" THEN updateUser(d, uid, "isActive", TRUE)
  ELSE updateUser(d, uid, "isActive", FALSE)

\* StaffService.<op>(staffUser, studentUid) is called; a failed check on
\* staffUser throws before anything is awaited
StaffStart(s, op, staffUser, studentUid) ==
  /\ staffCalls[s].pc = "idle"
  /\ \A t \in StaffCalls : t < s => staffCalls[t].pc # "idle"
  /\ LET msg == StaffUserCheck(op, staffUser)
         call == [IdleStaffCall EXCEPT !.op = op, !.staffUser = staffUser, !.studentUid = studentUid]
     IN  staffCalls' = [staffCalls EXCEPT ![s] =
           IF msg # NoMsg THEN [call EXCEPT !.pc = "done", !.err = msg]
           ELSE [call EXCEPT !.pc = "S_lookup"]]
  /\ UNCHANGED <<dir, authVars, nfcCalls, bulk, verdict, appVars>>

\* await UserService.getUserByUid(studentUid), then the checks on the record
StaffLookup(s) ==
  /\ staffCalls[s].pc = "S_lookup"
  /\ \/ staffCalls' = [staffCalls EXCEPT ![s].pc = "done", ![s].err = FetchUserFailedMsg]
     \/ LET student == getUserByUid(dir, staffCalls[s].studentUid)
            msg == StudentCheck(staffCalls[s].op, staffCalls[s].staffUser, student)
        IN  staffCalls' = [staffCalls EXCEPT ![s] =
              IF msg # NoMsg THEN [@ EXCEPT !.pc = "done", !.err = msg]
              ELSE [@ EXCEPT !.pc = "S_update"]]
  /\ UNCHANGED <<dir, authVars, nfcCalls, bulk, verdict, appVars>>

\* await the update of the record (updateDoc rejects when the document is gone)
StaffWrite(s) ==
  /\ staffCalls[s].pc = "S_update"
  /\ \/ /\ staffCalls[s].studentUid \in DOMAIN dir
        /\ dir' = StaffUpdate(dir, staffCalls[s].op, staffCalls[s].studentUid)
        /\ staffCalls' = [staffCalls EXCEPT ![s].pc = "done"]
     \/ /\ staffCalls' = [staffCalls EXCEPT ![s].pc = "done", ![s].err = StaffUpdateError(staffCalls[s].op)]
        /\ UNCHANGED dir
  /\ UNCHANGED <<authVars, nfcCalls, bulk, verdict, appVars>>

\* a directory of two departments: students of CS and EE, a staff member of CS
\* granted the approval right, one without it, and an administrator
StaffDir ==
  (1 :> NewUserData(1, 1, "s1@u.edu", "C-001", "student", "CS")) @@
  (2 :> NewUserData(2, 2, "s2@u.edu", "C-002", "student", "EE")) @@
  (3 :> [NewUserData(3, 3, "t1@u.edu", "C-003", "staff", "CS")
           EXCEPT !.canApproveStudents = True, !.isApproved = TRUE]) @@
  (4 :> NewUserData(4, 4, "t2@u.edu", "C-004", "staff", "CS")) @@
  (5 :> NewUserData(5, 5, "ad@u.edu", "C-005", "admin", "CS"))

\* the users of StaffDir, as the objects the screens hand to the services
StaffUsers == {StaffDir[i] : i \in DOMAIN StaffDir}

\* the ids the calls name: the documents of StaffDir and the id of no document
StaffUids == DOMAIN StaffDir \cup {Cardinality(DOMAIN StaffDir) + 1}

InitStaff ==
  /\ dir = StaffDir
  /\ creds = [k \in DOMAIN StaffDir |-> [email |-> StaffDir[k].email, password |-> GoodPassword]]
  /\ uidCount = Cardinality(DOMAIN StaffDir)
  /\ currentUser = NoUser
  /\ user = NULL
  /\ firebaseUser = NoUser
  /\ error = NoMsg
  /\ calls = [c \in Calls |-> IdleCall]
  /\ listeners = {}
  /\ nfcCalls = NoCalls
  /\ AdminIdle
  /\ AppUnused

NextStaff ==
  \/ \E s \in StaffCalls, op \in StaffOps, staffUser \in StaffUsers, studentUid \in StaffUids :
       StaffStart(s, op, staffUser, studentUid)
  \/ \E s \in StaffCalls : StaffLookup(s)
  \/ \E s \in StaffCalls : StaffWrite(s)

SpecStaff == InitStaff /\ [][NextStaff]_vars

\* ------------------------------------------------------ the bulk methods
FetchUsersFailedMsg == "Failed to fetch users"

AdminBulkOps == {"approveBulk", "revokeAccessBulk"}
StaffBulkOps == {"approveStudentsBulk", "activateStudentsBulk", "deactivateStudentsBulk"}

\* the check a ...StudentsBulk method makes on staffUser before its first
\* await: the message of the error thrown, NoMsg when staffUser passes
BulkUserCheck(op, staffUser) ==
  IF staffUser.canApproveStudents # True
  THEN IF op = "approveStudentsBulk" THEN NoApprovePermissionMsg
       ELSE IF op = "activateStudentsBulk" THEN NoActivatePermissionMsg
       ELSE NoDeactivatePermissionMsg
  ELSE NoMsg

\* the ids of every student, whatever the department
AllStudentIds(d, staffUser) == {i \in DOMAIN d : d[i].role = "student"}

\* departmentStudentIds: of the users getUsersByRole('student') returned, the
\* ids of those whose department is staffUser's
DepartmentStudentIds(d, staffUser) ==
  {i \in DOMAIN d : d[i].role = "student" /\ d[i].department = staffUser.department}

\* the update a bulk method applies to one id, were the deactivation to
\* withdraw the approval as well.
BulkUpdateWithdrawsApproval(d, op, uid) ==
  IF op \in {"approveBulk", "approveStudentsBulk"} THEN updateUser(d, uid, "isApproved", TRUE)
  ELSE IF op = "activateStudentsBulk" THEN updateUser(d, uid, "isActive", TRUE)
  ELSE updateUser(updateUser(d, uid, "isActive", FALSE), uid, "isApproved", FALSE)

\* the update a bulk method applies to one id
BulkUpdate(d, op, uid) ==
  IF op \in {"approveBulk", "approveStudentsBulk"} THEN updateUser(d, uid, "isApproved", TRUE)
  ELSE IF op = "activateStudentsBulk" THEN updateUser(d, uid, "isActive", TRUE)
  ELSE updateUser(d, uid, "isActive", FALSE)

\* Promise.race(promises): settled as soon as one callback has finished
PromiseRace(task) == \E i \in DOMAIN task : task[i] # "pending"

\* Promise.all(promises): settled when every callback has finished (a callback
\* never rejects: it catches its own errors)
PromiseAll(task) == \A i \in DOMAIN task : task[i] # "pending"

\* uids.map(async (uid) => ...): each callback runs up to its first await.  A
\* callback of a ...StudentsBulk method whose uid is not in
\* departmentStudentIds counts a failure and returns ("skipped"); any other
\* callback has issued its update and awaits it ("pending").
MapCallbacks(uids, staffOp, departmentStudentIds) ==
  [i \in DOMAIN uids |->
     IF staffOp /\ uids[i] \notin departmentStudentIds THEN "skipped" ELSE "pending"]

Count(task, status) == Cardinality({i \in DOMAIN task : task[i] = status})

\* an AdminService bulk method is called with uids: the callbacks are started
\* and Promise.all is awaited
AdminBulkStart(op, uids) ==
  /\ bulk.pc = "idle"
  /\ bulk' = [IdleBulk EXCEPT !.op = op, !.pc = "B_run", !.uids = uids,
                              !.task = MapCallbacks(uids, FALSE, {})]
  /\ UNCHANGED <<dir, authVars, nfcCalls, staffCalls, verdict, appVars>>

\* a StaffService bulk method is called: a staffUser without the approval right
\* makes it throw; otherwise getUsersByRole('student') is awaited
StaffBulkStart(op, staffUser, uids) ==
  /\ bulk.pc = "idle"
  /\ LET msg == BulkUserCheck(op, staffUser)
         call == [IdleBulk EXCEPT !.op = op, !.staffUser = staffUser, !.uids = uids]
     IN  bulk' = IF msg # NoMsg THEN [call EXCEPT !.pc = "done", !.err = msg]
                 ELSE [call EXCEPT !.pc = "B_list"]
  /\ UNCHANGED <<dir, authVars, nfcCalls, staffCalls, verdict, appVars>>

\* await UserService.getUsersByRole('student'): when it fails the method
\* throws the error's message; otherwise departmentStudentIds is built and the
\* callbacks are started
StaffBulkList ==
  /\ bulk.pc = "B_list"
  /\ \/ bulk' = [bulk EXCEPT !.pc = "done", !.err = FetchUsersFailedMsg]
     \/ LET ids == DepartmentStudentIds(dir, bulk.staffUser)
            task == MapCallbacks(bulk.uids, TRUE, ids)
        IN  bulk' = [bulk EXCEPT !.pc = "B_run", !.departmentStudentIds = ids, !.task = task,
                                 !.failed = Count(task, "skipped")]
  /\ UNCHANGED <<dir, authVars, nfcCalls, staffCalls, verdict, appVars>>

\* the update of callback i settles: success++ when it resolved, failed++ in
\* the callback's catch when it rejected (as it does for an id of no document)
BulkTask(i) ==
  /\ bulk.pc = "B_run"
  /\ i \in DOMAIN bulk.task
  /\ bulk.task[i] = "pending"
  /\ \/ /\ bulk.uids[i] \in DOMAIN dir
        /\ dir' = BulkUpdate(dir, bulk.op, bulk.uids[i])
        /\ bulk' = [bulk EXCEPT !.task[i] = "ok", !.success = @ + 1]
     \/ /\ bulk' = [bulk EXCEPT !.task[i] = "failed", !.failed = @ + 1]
        /\ UNCHANGED dir
  /\ UNCHANGED <<authVars, nfcCalls, staffCalls, verdict, appVars>>

\* await Promise.all(promises) resumes: return {success, failed}
BulkReturn ==
  /\ bulk.pc = "B_run"
  /\ PromiseAll(bulk.task)
  /\ bulk' = [bulk EXCEPT !.pc = "done", !.result = [success |-> bulk.success, failed |-> bulk.failed]]
  /\ UNCHANGED <<dir, authVars, nfcCalls, staffCalls, verdict, appVars>>

\* the uids arrays handed to the bulk methods
RECURSIVE SeqsUpTo(_, _)
SeqsUpTo(S, n) ==
  IF n = 0 THEN {<<>>}
  ELSE LET shorter == SeqsUpTo(S, n - 1)
       IN  shorter \cup {Append(q, x) : q \in shorter, x \in S}

BulkUids == SeqsUpTo(StaffUids, MaxBulk)

NextBulk ==
  \/ \E op \in AdminBulkOps, uids \in BulkUids : AdminBulkStart(op, uids)
  \/ \E op \in StaffBulkOps, staffUser \in StaffUsers, uids \in BulkUids : StaffBulkStart(op, staffUser, uids)
  \/ StaffBulkList
  \/ \E i \in 1..MaxBulk : BulkTask(i)
  \/ BulkReturn

SpecBulk == InitStaff /\ [][NextBulk]_vars

\* ------------------------------------------------ the permission predicates
\* AdminService.validateUserCanApprove, were a staff member permitted unless
\* the flag is false.
validateUserCanApproveUnlessFalse(u) ==
  IF u = NULL THEN FALSE
  ELSE IF u.role = "admin" THEN TRUE
  ELSE IF u.role = "staff" THEN u.canApproveStudents # False
  ELSE FALSE

\* AdminService.validateUserCanApprove(user)
validateUserCanApprove(u) ==
  IF u = NULL THEN FALSE
  ELSE IF u.role = "admin" THEN TRUE
  ELSE IF u.role = "staff" THEN u.canApproveStudents = True
  ELSE FALSE

\* StaffService.hasApprovalPermission(staffUser)
hasApprovalPermission(staffUser) ==
  staffUser.role = "staff" /\ staffUser.canApproveStudents = True

\* the User objects handed to the predicates, and null
PolicyUsers ==
  {NULL} \cup
  {[NewUserData(1, 1, "u@u.edu", "C-001", role, department)
      EXCEPT !.canApproveStudents = flag, !.isActive = isActive] :
     role \in Roles, flag \in {True, False, Undefined}, department \in Departments,
     isActive \in BOOLEAN}

\* validateUserCanApprove(u) is called; verdict holds what it returned
ValidateUserCanApprove(u) ==
  /\ verdict' = [user |-> u,
                 validateUserCanApprove |-> {validateUserCanApprove(u)},
                 hasApprovalPermission |-> IF u = verdict.user THEN verdict.hasApprovalPermission ELSE {}]
  /\ UNCHANGED <<dir, authVars, nfcCalls, staffCalls, bulk, appVars>>

\* hasApprovalPermission(staffUser) is called; verdict holds what it returned
HasApprovalPermission(staffUser) ==
  /\ staffUser # NULL
  /\ verdict' = [user |-> staffUser,
                 validateUserCanApprove |-> IF staffUser = verdict.user THEN verdict.validateUserCanApprove ELSE {},
                 hasApprovalPermission |-> {hasApprovalPermission(staffUser)}]
  /\ UNCHANGED <<dir, authVars, nfcCalls, staffCalls, bulk, appVars>>

NextPolicy ==
  \/ \E u \in PolicyUsers : ValidateUserCanApprove(u)
  \/ \E u \in PolicyUsers : HasApprovalPermission(u)

SpecPolicy == InitStaff /\ [][NextPolicy]_vars

\* ------------------------------------- UserService.createUser / deleteUser
UploadFailedMsg == "Failed to upload image"
DeleteUserFailedMsg == "Failed to delete user"

\* no imageBase64 in the userData handed to createUser
NoImage == ""

IdleUserCall ==
  [op |-> "none", pc |-> "idle", authUid |-> NoUser, email |-> "", cardNumber |-> "", role |-> "",
   department |-> "", imageBase64 |-> NoImage, userRef |-> 0, upload |-> "none", imageUrl |-> Undefined,
   uid |-> 0, result |-> NULL, raw |-> NoErr, err |-> NoMsg]

\* the call ends with the error first caught by the method's catch block
\* (`raw`) and the message thrown
UserFinished(call, raw, msg) == [call EXCEPT !.pc = "done", !.raw = raw, !.err = msg]

\* getDownloadURL(ref(storage, `${folder}/${userId}_${timestamp}.jpg`))
DownloadUrl(folder, userId) == <<folder, userId>>

\* newUserData of UserService.createUser: imageUrl is a field of the document
\* only when the upload returned one
NewUserDataWithImage(call) ==
  LET newUserData == NewUserData(call.userRef, call.authUid, call.email, call.cardNumber,
                                 call.role, call.department)
  IN  IF call.imageUrl # Undefined THEN [imageUrl |-> call.imageUrl] @@ newUserData ELSE newUserData

\* the User object UserService.createUser returns: imageUrl is named, and
\* undefined when no image was uploaded
CreatedUserWithImage(call) ==
  [imageUrl |-> call.imageUrl] @@
  CreatedUser(call.userRef, call.authUid, call.email, call.cardNumber, call.role, call.department)

\* the ids doc(collection(db, 'users')) can generate: the auto-generated id of
\* a reference is new, also among the references other calls hold
FreshRefs(d, ids) == {id \in ids : id \notin DOMAIN d /\ \A v \in UserCalls : userCalls[v].userRef # id}

\* UserService.createUser(authUid, userData) is called
UserCreateStart(u, authUid, email, cardNumber, role, department, imageBase64) ==
  /\ userCalls[u].pc = "idle"
  /\ \A v \in UserCalls : v < u => userCalls[v].pc # "idle"
  /\ userCalls' = [userCalls EXCEPT ![u] =
       [IdleUserCall EXCEPT !.op = "createUser", !.pc = "C_check", !.authUid = authUid, !.email = email,
                            !.cardNumber = cardNumber, !.role = role, !.department = department,
                            !.imageBase64 = imageBase64]]
  /\ UNCHANGED <<dir, authVars, nfcCalls, adminVars, landing, profile>>

\* createUser: await this.getUserByCardNumber(userData.cardNumber); then
\* userRef = doc(collection(db, 'users')), and the upload is started when
\* userData.imageBase64 is given
UserCreateCheck(u, ids) ==
  /\ userCalls[u].pc = "C_check"
  /\ \/ LET raw == PlainError(FetchByCardFailedMsg)
        IN  userCalls' = [userCalls EXCEPT ![u] = UserFinished(@, raw, CreateUserError(raw))]
     \/ LET raw == PlainError(CardExistsMsg)
        IN  IF getUserByCardNumber(dir, userCalls[u].cardNumber) # NULL
            THEN userCalls' = [userCalls EXCEPT ![u] = UserFinished(@, raw, CreateUserError(raw))]
            ELSE \E id \in FreshRefs(dir, ids) :
                   userCalls' = [userCalls EXCEPT ![u].userRef = id,
                       ![u].pc = IF userCalls[u].imageBase64 # NoImage THEN "C_upload" ELSE "C_write"]
  /\ UNCHANGED <<dir, authVars, nfcCalls, adminVars, landing, profile>>

\* ImageService.uploadBase64Image failed, were the error left to reach the
\* catch block of createUser.
UploadFailedRethrown(call) ==
  UserFinished([call EXCEPT !.upload = "failed"], PlainError(UploadFailedMsg),
               CreateUserError(PlainError(UploadFailedMsg)))

\* ImageService.uploadBase64Image threw 'Failed to upload image': createUser
\* catches it, logs it and goes on with imageUrl undefined
UploadFailed(call) == [call EXCEPT !.upload = "failed", !.pc = "C_write"]

\* ImageService.uploadBase64Image: await uploadString(storageRef, base64Data, 'base64', ...)
UserCreateUpload(u) ==
  /\ userCalls[u].pc = "C_upload"
  /\ \/ userCalls' = [userCalls EXCEPT ![u].pc = "C_url"]
     \/ userCalls' = [userCalls EXCEPT ![u] = UploadFailed(@)]
  /\ UNCHANGED <<dir, authVars, nfcCalls, adminVars, landing, profile>>

\* ImageService.uploadBase64Image: await getDownloadURL(storageRef); createUser
\* holds the URL returned
UserCreateUrl(u) ==
  /\ userCalls[u].pc = "C_url"
  /\ \/ userCalls' = [userCalls EXCEPT ![u].pc = "C_write", ![u].upload = "done",
                                       ![u].imageUrl = DownloadUrl("profile-images", userCalls[u].userRef)]
     \/ userCalls' = [userCalls EXCEPT ![u] = UploadFailed(@)]
  /\ UNCHANGED <<dir, authVars, nfcCalls, adminVars, landing, profile>>

\* createUser: await setDoc(userRef, newUserData); return the User
UserCreateWrite(u) ==
  /\ userCalls[u].pc = "C_write"
  /\ \/ /\ dir' = setDoc(dir, userCalls[u].userRef, NewUserDataWithImage(userCalls[u]))
        /\ userCalls' = [userCalls EXCEPT ![u] =
             UserFinished([@ EXCEPT !.result = CreatedUserWithImage(userCalls[u])], NoErr, NoMsg)]
     \/ /\ userCalls' = [userCalls EXCEPT ![u] = UserFinished(@, FirestoreFailure, CreateUserError(FirestoreFailure))]
        /\ UNCHANGED dir
  /\ UNCHANGED <<authVars, nfcCalls, adminVars, landing, profile>>

\* UserService.deleteUser(uid) is called
UserDeleteStart(u, uid) ==
  /\ userCalls[u].pc = "idle"
  /\ \A v \in UserCalls : v < u => userCalls[v].pc # "idle"
  /\ userCalls' = [userCalls EXCEPT ![u] = [IdleUserCall EXCEPT !.op = "deleteUser", !.pc = "D_delete", !.uid = uid]]
  /\ UNCHANGED <<dir, authVars, nfcCalls, adminVars, landing, profile>>

\* deleteDoc(doc(db, 'users', uid)): the document is removed (a document that
\* does not exist is deleted without an error)
deleteDoc(d, uid) == [i \in DOMAIN d \ {uid} |-> d[i]]

\* deleteUser: await deleteDoc(doc(db, USERS_COLLECTION, uid)); Firebase Auth
\* is not called
UserDelete(u) ==
  /\ userCalls[u].pc = "D_delete"
  /\ \/ /\ dir' = deleteDoc(dir, userCalls[u].uid)
        /\ userCalls' = [userCalls EXCEPT ![u] = UserFinished(@, NoErr, NoMsg)]
     \/ /\ userCalls' = [userCalls EXCEPT ![u] = UserFinished(@, FirestoreFailure, DeleteUserFailedMsg)]
        /\ UNCHANGED dir
  /\ UNCHANGED <<authVars, nfcCalls, adminVars, landing, profile>>

\* a directory of a student who holds an NFC id and an administrator
UserDir ==
  (1 :> [NewUserData(1, 1, "a@u.edu", "C-001", "student", "CS") EXCEPT !.nfcId = "04A1", !.isApproved = TRUE]) @@
  (2 :> NewUserData(2, 2, "b@u.edu", "C-002", "admin", "CS"))

\* the ids of the references createUser generates
UserRefs == {Cardinality(DOMAIN UserDir) + i : i \in DocIds}

\* the userData handed to createUser:
\* <<authUid, email, cardNumber, role, department, imageBase64>>
UserInputs ==
  {<<3, "c@u.edu", "C-003", "student", "CS", "data:image/jpeg;base64,AAAA">>,
   <<4, "d@u.edu", "C-003", "staff", "EE", NoImage>>}

\* the ids handed to deleteUser: a record of UserDir and the first record
\* createUser writes
UserUids == {1, Cardinality(DOMAIN UserDir) + 1}

\* the administrator of UserDir is signed in
InitUser ==
  /\ dir = UserDir
  /\ creds = [k \in DOMAIN UserDir |-> [email |-> UserDir[k].email, password |-> GoodPassword]]
  /\ uidCount = Cardinality(DOMAIN UserDir)
  /\ currentUser = 2
  /\ user = UserDir[2]
  /\ firebaseUser = 2
  /\ error = NoMsg
  /\ calls = NoCalls
  /\ listeners = {}
  /\ nfcCalls = NoCalls
  /\ AdminUnused
  /\ userCalls = [u \in UserCalls |-> IdleUserCall]
  /\ landing = NoCalls
  /\ profile = NoCalls

NextUser ==
  \/ \E u \in UserCalls, i \in UserInputs : UserCreateStart(u, i[1], i[2], i[3], i[4], i[5], i[6])
  \/ \E u \in UserCalls : UserCreateCheck(u, UserRefs)
  \/ \E u \in UserCalls : UserCreateUpload(u)
  \/ \E u \in UserCalls : UserCreateUrl(u)
  \/ \E u \in UserCalls : UserCreateWrite(u)
  \/ \E u \in UserCalls, uid \in UserUids : UserDeleteStart(u, uid)
  \/ \E u \in UserCalls : UserDelete(u)

SpecUser == InitUser /\ [][NextUser]_vars


\* ------------------------------------------------- the kiosk: LandingScreen
NotRegisteredMsg == "This card is not registered in the system."

\* the delays of the setTimeout calls of startContinuousScanning (ms)
BusyDelay == 500
NextScanDelay == 300
NotFoundCooldown == 2000
ErrorCooldown == 1000

MifareClassic == "android.nfc.tech.MifareClassic"
NfcA == "android.nfc.tech.NfcA"

\* the tags held to the reader, as NfcManager.getTag() returns them: id is
\* the UID ("" when the tag reports none), techTypes the technologies
Tags ==
  {[id |-> "04A1", techTypes |-> {NfcA}],
   [id |-> "04b2", techTypes |-> {NfcA, MifareClassic}],
   [id |-> "04C3", techTypes |-> {NfcA}],
   [id |-> "", techTypes |-> {NfcA}]}

\* String.prototype.toUpperCase on the ids of Tags
toUpperCase(str) == IF str = "04b2" THEN "04B2" ELSE str

\* formatCardId(cardId) for a string (tag.id is a string)
formatCardId(cardId) == toUpperCase(cardId)

\* what readMifareClassicData returns when its reads succeed (the bytes of
\* the block are not modelled)
MifareData == [sector |-> 1, block |-> 4]

\* the CardReadResult readRfidCard builds from a tag and the data read from
\* it (null when none was read)
CardData(tag, additionalData) ==
  [cardId |-> formatCardId(IF tag.id # "" THEN tag.id ELSE "UNKNOWN"), data |-> additionalData]

IdleLanding ==
  [pc |-> "idle", isMounted |-> FALSE, isProcessingRef |-> FALSE, scanStatus |-> "ready",
   appState |-> "active", tech |-> "none", tag |-> NULL, cardData |-> NULL, matchedUser |-> NULL,
   delay |-> 0, alert |-> NoMsg, pushes |-> <<>>]

\* NfcManager.cancelTechnologyRequest(): the reader holds no request
cancelTechnologyRequest(l) == [l EXCEPT !.tech = "none"]

\* startContinuousScanning from `while (isMounted)` to its next await: the
\* loop ends, waits because a scan is being processed, or sets the status to
\* scanning and calls readRfidCard, which requests the technology
Iterate(l) ==
  IF ~l.isMounted THEN [l EXCEPT !.pc = "stopped", !.delay = 0]
  ELSE IF l.isProcessingRef THEN [l EXCEPT !.pc = "W_busy", !.delay = BusyDelay]
  ELSE [l EXCEPT !.pc = "R_request", !.delay = 0, !.scanStatus = "scanning", !.tech = "requested",
                 !.tag = NULL, !.cardData = NULL, !.matchedUser = NULL]

\* readRfidCard returns, were the loop to test the card id for emptiness
\* only.
ReadReturnedAnyId(l, cardData) ==
  LET m == cancelTechnologyRequest(l)
  IN  IF ~m.isMounted THEN [m EXCEPT !.pc = "stopped"]
      ELSE IF cardData # NULL /\ cardData.cardId # ""
      THEN [m EXCEPT !.pc = "P_lookup", !.cardData = cardData, !.isProcessingRef = TRUE,
                     !.scanStatus = "processing"]
      ELSE [m EXCEPT !.pc = "W_next", !.cardData = cardData, !.delay = NextScanDelay]

\* readRfidCard returns cardData (null after a failure): its finally block
\* cancels the technology request, and the loop runs to its next await
ReadReturned(l, cardData) ==
  LET m == cancelTechnologyRequest(l)
  IN  IF ~m.isMounted THEN [m EXCEPT !.pc = "stopped"]
      ELSE IF cardData # NULL /\ cardData.cardId # "" /\ cardData.cardId # "UNKNOWN"
      THEN [m EXCEPT !.pc = "P_lookup", !.cardData = cardData, !.isProcessingRef = TRUE,
                     !.scanStatus = "processing"]
      ELSE [m EXCEPT !.pc = "W_next", !.cardData = cardData, !.delay = NextScanDelay]

\* the scanning effect runs (loading is false and no user is signed in):
\* isMounted = true; startContinuousScanning()
LandingMount ==
  /\ landing.pc = "idle"
  /\ profile.pc = "idle"
  /\ user = NULL
  /\ landing' = Iterate([landing EXCEPT !.isMounted = TRUE])
  /\ UNCHANGED <<dir, authVars, nfcCalls, adminVars, userCalls, profile>>

\* readRfidCard: await NfcManager.requestTechnology([NfcA, MifareClassic])
\* resolves, a tag being held to the reader; NfcManager.getTag() is called
LandingTagDetected(tag) ==
  /\ landing.pc = "R_request"
  /\ landing.tech = "requested"
  /\ landing' = [landing EXCEPT !.pc = "R_tag", !.tech = "connected", !.tag = tag]
  /\ UNCHANGED <<dir, authVars, nfcCalls, adminVars, userCalls, profile>>

\* readRfidCard: await NfcManager.requestTechnology(...) rejects (the request
\* was cancelled, or the reader failed): the catch block returns null
LandingRequestRejected ==
  /\ landing.pc = "R_request"
  /\ landing' = ReadReturned(landing, NULL)
  /\ UNCHANGED <<dir, authVars, nfcCalls, adminVars, userCalls, profile>>

\* readRfidCard: await NfcManager.getTag() returns the tag (a call made before
\* a cancellation is answered all the same), returns no tag or rejects; for a
\* MIFARE Classic tag readMifareClassicData requests the technology
LandingGetTag ==
  /\ landing.pc = "R_tag"
  /\ \/ IF MifareClassic \in landing.tag.techTypes
        THEN landing' = [landing EXCEPT !.pc = "M_request", !.tech = "requested"]
        ELSE landing' = ReadReturned(landing, CardData(landing.tag, NULL))
     \/ landing' = ReadReturned(landing, NULL)
  /\ UNCHANGED <<dir, authVars, nfcCalls, adminVars, userCalls, profile>>

\* readMifareClassicData: await NfcManager.requestTechnology(NfcTech.MifareClassic);
\* a failure is caught there and readRfidCard returns the card without data
LandingMifareRequest ==
  /\ landing.pc = "M_request"
  /\ \/ /\ landing.tech = "requested"
        /\ landing' = [landing EXCEPT !.pc = "M_auth", !.tech = "connected"]
     \/ landing' = ReadReturned(landing, CardData(landing.tag, NULL))
  /\ UNCHANGED <<dir, authVars, nfcCalls, adminVars, userCalls, profile>>

\* readMifareClassicData: await NfcManager.mifareClassicAuthenticateA(blockIndex, defaultKey)
LandingMifareAuthenticate ==
  /\ landing.pc = "M_auth"
  /\ \/ landing' = [landing EXCEPT !.pc = "M_read"]
     \/ landing' = ReadReturned(landing, CardData(landing.tag, NULL))
  /\ UNCHANGED <<dir, authVars, nfcCalls, adminVars, userCalls, profile>>

\* readMifareClassicData: await NfcManager.mifareClassicReadBlock(blockIndex);
\* readRfidCard returns the card, with or without the data read
LandingMifareReadBlock ==
  /\ landing.pc = "M_read"
  /\ \/ landing' = ReadReturned(landing, CardData(landing.tag, MifareData))
     \/ landing' = ReadReturned(landing, CardData(landing.tag, NULL))
  /\ UNCHANGED <<dir, authVars, nfcCalls, adminVars, userCalls, profile>>

\* ---------------------------------------------- the kiosk: UserProfileScreen
DEFAULT_CARD_NUMBER == "Admin01"
NoUserForNfcMsg == "No user found for NFC ID"
NoUserForCardMsg == "No user found for card"

\* a route parameter that is not given (useLocalSearchParams gives undefined)
NoParam == ""

IdleProfile ==
  [pc |-> "idle", routeNfcId |-> NoParam, routeCardNumber |-> NoParam, lookups |-> <<>>,
   loading |-> TRUE, error |-> NoMsg, user |-> NULL]

\* loadUser up to its await: setLoading(true); setError(null); the lookup by
\* the NFC id of the route, else by the card number of the route or the
\* default card number.  lookups lists the directory lookups made.
loadUser(p) ==
  IF p.routeNfcId # NoParam
  THEN [p EXCEPT !.pc = "L_nfc", !.loading = TRUE, !.error = NoMsg,
                 !.lookups = Append(@, <<"getUserByNfcId", p.routeNfcId>>)]
  ELSE LET cardToUse == IF p.routeCardNumber # NoParam THEN p.routeCardNumber ELSE DEFAULT_CARD_NUMBER
       IN  [p EXCEPT !.pc = "L_card", !.loading = TRUE, !.error = NoMsg,
                     !.lookups = Append(@, <<"getUserByCardNumber", cardToUse>>)]

\* the screen is mounted with the route parameters; its effect calls loadUser
ProfileMounted(nfcId, cardNumber) ==
  loadUser([IdleProfile EXCEPT !.routeNfcId = nfcId, !.routeCardNumber = cardNumber])

\* what the screen renders: the spinner, the error view or the profile card
ProfileView(p) ==
  IF p.loading THEN "loading" ELSE IF p.error # NoMsg THEN "error" ELSE "profile"

\* the route /user-profile is opened with the given parameters
ProfileOpen(nfcId, cardNumber) ==
  /\ profile.pc = "idle"
  /\ landing.pc = "idle"
  /\ profile' = ProfileMounted(nfcId, cardNumber)
  /\ UNCHANGED <<dir, authVars, nfcCalls, adminVars, userCalls, landing>>

\* loadUser: await UserService.getUserByNfcId(routeNfcId) or
\* getUserByCardNumber(cardToUse); setError / setUser; finally setLoading(false)
ProfileLookup ==
  /\ profile.pc \in {"L_nfc", "L_card"}
  /\ LET byNfc == profile.pc = "L_nfc"
         key == profile.lookups[Len(profile.lookups)][2]
         found == IF byNfc THEN getUserByNfcId(dir, key) ELSE getUserByCardNumber(dir, key)
     IN  \/ profile' = [profile EXCEPT !.pc = "done", !.loading = FALSE, !.user = found,
                          !.error = IF found # NULL THEN NoMsg
                                    ELSE IF byNfc THEN NoUserForNfcMsg ELSE NoUserForCardMsg]
         \/ profile' = [profile EXCEPT !.pc = "done", !.loading = FALSE,
                          !.error = IF byNfc THEN FetchByNfcFailedMsg ELSE FetchByCardFailedMsg]
  /\ UNCHANGED <<dir, authVars, nfcCalls, adminVars, userCalls, landing>>

\* --------------------------------------- the kiosk: the end of a scan cycle
\* the lookup found no user: handleCardFailure, isProcessingRef.current = false,
\* setScanStatus('ready'), and the wait before the next scan
NotFound(l) ==
  [l EXCEPT !.pc = "W_notfound", !.alert = NotRegisteredMsg, !.isProcessingRef = FALSE,
            !.scanStatus = "ready", !.delay = NotFoundCooldown]

\* the catch block of the loop, were it to report the card as the branch of
\* the unmatched card does.
ScanErrorNotRegistered(l) ==
  IF l.isMounted
  THEN [l EXCEPT !.pc = "W_error", !.alert = NotRegisteredMsg, !.scanStatus = "ready", !.delay = ErrorCooldown]
  ELSE Iterate(l)

\* the catch block of the loop: setScanStatus('ready') and the wait, when
\* still mounted; then the next iteration
ScanError(l) ==
  IF l.isMounted THEN [l EXCEPT !.pc = "W_error", !.scanStatus = "ready", !.delay = ErrorCooldown]
  ELSE Iterate(l)

\* router.push of the profile route, were the loop left to go on to its next
\* iteration.
NavigatedGoesOn(l, matchedUser) ==
  Iterate([l EXCEPT !.matchedUser = matchedUser,
                    !.pushes = Append(@, [pathname |-> "/user-profile", nfcId |-> l.cardData.cardId])])

\* router.push({pathname: '/user-profile', params: {nfcId}}); break: the loop
\* ends, isProcessingRef.current is left true
Navigated(l, matchedUser) ==
  [l EXCEPT !.pc = "navigated", !.matchedUser = matchedUser,
            !.pushes = Append(@, [pathname |-> "/user-profile", nfcId |-> l.cardData.cardId])]

\* the loop: await UserService.getUserByNfcId(cardData.cardId) throws, or
\* returns the user matched; a user found is handed to the profile screen
LandingLookup ==
  /\ landing.pc = "P_lookup"
  /\ \/ /\ landing' = ScanError(landing)
        /\ UNCHANGED profile
     \/ LET matchedUser == getUserByNfcId(dir, landing.cardData.cardId)
        IN  IF ~landing.isMounted
            THEN landing' = [landing EXCEPT !.pc = "stopped"] /\ UNCHANGED profile
            ELSE IF matchedUser = NULL
            THEN landing' = NotFound(landing) /\ UNCHANGED profile
            ELSE /\ landing' = Navigated(landing, matchedUser)
                 /\ profile' = IF Len(landing'.pushes) > Len(landing.pushes)
                               THEN ProfileMounted(landing.cardData.cardId, NoParam) ELSE profile
  /\ UNCHANGED <<dir, authVars, nfcCalls, adminVars, userCalls>>

\* a setTimeout of the loop fires: the next iteration
LandingTimeout ==
  /\ landing.pc \in {"W_busy", "W_next", "W_notfound", "W_error"}
  /\ landing' = Iterate(landing)
  /\ UNCHANGED <<dir, authVars, nfcCalls, adminVars, userCalls, profile>>

\* the cleanup of the scanning effect (unmount, or loading / user / router
\* changed): isMounted = false; isProcessingRef.current = false;
\* NfcManager.cancelTechnologyRequest()
LandingCleanup ==
  /\ landing.isMounted
  /\ landing' = cancelTechnologyRequest([landing EXCEPT !.isMounted = FALSE, !.isProcessingRef = FALSE])
  /\ UNCHANGED <<dir, authVars, nfcCalls, adminVars, userCalls, profile>>

\* the AppState listener, were its first test only about the state left.
appStateChangedFromBackground(l, nextAppState) ==
  LET m == IF l.appState \in {"inactive", "background"} THEN l
           ELSE IF nextAppState = "background"
           THEN [cancelTechnologyRequest(l) EXCEPT !.isProcessingRef = FALSE]
           ELSE l
  IN  [m EXCEPT !.appState = nextAppState]

\* the AppState 'change' listener: back in the foreground nothing is done;
\* going to the background cancels the technology request and clears
\* isProcessingRef; appState.current = nextAppState
appStateChanged(l, nextAppState) ==
  LET m == IF l.appState \in {"inactive", "background"} /\ nextAppState = "active" THEN l
           ELSE IF nextAppState = "background"
           THEN [cancelTechnologyRequest(l) EXCEPT !.isProcessingRef = FALSE]
           ELSE l
  IN  [m EXCEPT !.appState = nextAppState]

\* the host application changes state while the screen is mounted
AppStateChange(nextAppState) ==
  /\ landing.pc # "idle"
  /\ nextAppState # landing.appState
  /\ landing' = appStateChanged(landing, nextAppState)
  /\ UNCHANGED <<dir, authVars, nfcCalls, adminVars, userCalls, profile>>

\* a directory of an active student, a deactivated student and the
\* administrator of the default card number; the students hold NFC ids
KioskDir ==
  (1 :> [NewUserData(1, 1, "a@u.edu", "C-001", "student", "CS") EXCEPT !.nfcId = "04A1", !.isApproved = TRUE]) @@
  (2 :> [NewUserData(2, 2, "b@u.edu", "C-002", "student", "CS")
           EXCEPT !.nfcId = "04B2", !.isApproved = TRUE, !.isActive = FALSE]) @@
  (3 :> NewUserData(3, 3, "c@u.edu", DEFAULT_CARD_NUMBER, "admin", "CS"))

\* the parameters /user-profile is opened with
RouteNfcIds == {NoParam, "04A1", "04C3"}
RouteCardNumbers == {NoParam, "C-001", "C-009"}

AppStates == {"active", "inactive", "background"}

\* nobody is signed in; no screen is mounted yet
InitKiosk ==
  /\ dir = KioskDir
  /\ creds = [k \in DOMAIN KioskDir |-> [email |-> KioskDir[k].email, password |-> GoodPassword]]
  /\ uidCount = Cardinality(DOMAIN KioskDir)
  /\ currentUser = NoUser
  /\ user = NULL
  /\ firebaseUser = NoUser
  /\ error = NoMsg
  /\ calls = NoCalls
  /\ listeners = {}
  /\ nfcCalls = NoCalls
  /\ AdminUnused
  /\ userCalls = NoCalls
  /\ landing = IdleLanding
  /\ profile = IdleProfile

\* the steps of the scan loop that the event loop runs once they are due
LoopStep ==
  \/ LandingGetTag
  \/ LandingMifareRequest
  \/ LandingMifareAuthenticate
  \/ LandingMifareReadBlock
  \/ LandingLookup
  \/ LandingTimeout

NextKiosk ==
  \/ LandingMount
  \/ \E tag \in Tags : LandingTagDetected(tag)
  \/ LandingRequestRejected
  \/ LandingGetTag
  \/ LandingMifareRequest
  \/ LandingMifareAuthenticate
  \/ LandingMifareReadBlock
  \/ LandingLookup
  \/ LandingTimeout
  \/ LandingCleanup
  \/ \E nextAppState \in AppStates : AppStateChange(nextAppState)
  \/ \E nfcId \in RouteNfcIds, cardNumber \in RouteCardNumbers : ProfileOpen(nfcId, cardNumber)
  \/ ProfileLookup

SpecKiosk == InitKiosk /\ [][NextKiosk]_vars

\* a timer that is due fires and a pending call settles; a technology request
\* may wait for a tag for ever
SpecKioskLive == InitKiosk /\ [][NextKiosk]_vars /\ WF_vars(LoopStep) /\ WF_vars(ProfileLookup)

\* ------------------------------------- the lookups of the kiosk, called alone
\* a call of UserService.getUserByNfcId or getUserByCardNumber: queried tells
\* whether getDocs was called
IdleLookupCall ==
  [op |-> "none", pc |-> "idle", key |-> "", queried |-> FALSE, result |-> NULL, err |-> NoMsg]

LookupOps == {"getUserByNfcId", "getUserByCardNumber"}

\* getUserByNfcId(key) / getUserByCardNumber(key) up to the await: null is
\* returned for an empty argument, else the query is sent
LookupStart(op, key) ==
  /\ userCalls[1].pc = "idle"
  /\ userCalls' = [userCalls EXCEPT ![1] =
       IF key = "" THEN [IdleLookupCall EXCEPT !.op = op, !.key = key, !.pc = "done"]
       ELSE [IdleLookupCall EXCEPT !.op = op, !.key = key, !.pc = "Q_getDocs", !.queried = TRUE]]
  /\ UNCHANGED <<dir, authVars, nfcCalls, adminVars, landing, profile>>

\* await getDocs(q): the first document of the snapshot is returned, or null
\* for an empty snapshot; a rejection is rethrown with the method's message
LookupGetDocs ==
  /\ userCalls[1].pc = "Q_getDocs"
  /\ LET call == userCalls[1]
         byNfc == call.op = "getUserByNfcId"
     IN  \/ userCalls' = [userCalls EXCEPT ![1].pc = "done",
               ![1].result = IF byNfc THEN getUserByNfcId(dir, call.key) ELSE getUserByCardNumber(dir, call.key)]
         \/ userCalls' = [userCalls EXCEPT ![1].pc = "done",
               ![1].err = IF byNfc THEN FetchByNfcFailedMsg ELSE FetchByCardFailedMsg]
  /\ UNCHANGED <<dir, authVars, nfcCalls, adminVars, landing, profile>>

\* the identifiers looked up: empty, held by a record, held by none
LookupKeys == [getUserByNfcId |-> RouteNfcIds, getUserByCardNumber |-> RouteCardNumbers]

\* the kiosk, and one call of a lookup method
InitLookup ==
  /\ dir = KioskDir
  /\ creds = [k \in DOMAIN KioskDir |-> [email |-> KioskDir[k].email, password |-> GoodPassword]]
  /\ uidCount = Cardinality(DOMAIN KioskDir)
  /\ currentUser = NoUser
  /\ user = NULL
  /\ firebaseUser = NoUser
  /\ error = NoMsg
  /\ calls = NoCalls
  /\ listeners = {}
  /\ nfcCalls = NoCalls
  /\ AdminUnused
  /\ userCalls = <<IdleLookupCall>>
  /\ landing = IdleLanding
  /\ profile = IdleProfile

NextLookup ==
  \/ NextKiosk
  \/ \E op \in LookupOps : \E key \in LookupKeys[op] : LookupStart(op, key)
  \/ LookupGetDocs

SpecLookup == InitLookup /\ [][NextLookup]_vars

\* ------------------------------------ AdminService, one record at a time
UserNotFoundMsg == "User not found"
FetchUserDataFailedMsg == "Failed to fetch user data"
UpdatePermissionsFailedMsg == "Failed to update staff permissions"

\* the methods that make one write: those of AdminService, and
\* UserService.deleteUser
AdminOps == {"approveUser", "grantAccess", "revokeAccess", "rejectUser", "approveAndActivate", "deleteUser"}

\* the methods that read the record and then write canApproveStudents
RightsOps == {"grantApprovalRights", "revokeApprovalRights", "toggleApprovalRights"}

\* a call of one of these methods: newValue is the flag the method hands to
\* updateStaffApprovalPermission, result what toggleApprovalRights returned
IdleAdminCall ==
  [op |-> "none", pc |-> "idle", uid |-> 0, newValue |-> Undefined, result |-> Undefined, err |-> NoMsg]

\* the message of the error a method of AdminOps throws from its catch block
AdminError(op) ==
  IF op = "approveUser" THEN ApproveUserFailedMsg
  ELSE IF op = "grantAccess" THEN "Failed to grant access"
  ELSE IF op = "revokeAccess" THEN "Failed to revoke access"
  ELSE IF op = "rejectUser" THEN "Failed to reject user"
  ELSE IF op = "approveAndActivate" THEN "Failed to approve and activate user"
  ELSE DeleteUserFailedMsg

\* UserService.approveUser, were it to activate the record as well.
ApproveUpdateActivates(d, uid) == updateUser(updateUser(d, uid, "isApproved", TRUE), uid, "isActive", TRUE)

\* UserService.approveUser(uid): updateUser(uid, {isApproved: true})
ApproveUpdate(d, uid) == updateUser(d, uid, "isApproved", TRUE)

\* the update of isActive, were the approval to follow it.
SetActiveAndApproval(d, uid, isActive) ==
  updateUser(updateUser(d, uid, "isActive", isActive), uid, "isApproved", isActive)

\* updateUser(uid, {isActive}): UserService.deactivateUser writes false,
\* AdminService.grantAccess true
SetActive(d, uid, isActive) == updateUser(d, uid, "isActive", isActive)

\* the write of a method of AdminOps
AdminWrite(d, op, uid) ==
  IF op = "approveUser" THEN ApproveUpdate(d, uid)
  ELSE IF op = "grantAccess" THEN SetActive(d, uid, TRUE)
  ELSE IF op \in {"revokeAccess", "rejectUser"} THEN SetActive(d, uid, FALSE)
  ELSE IF op = "approveAndActivate"
  THEN updateUser(updateUser(d, uid, "isApproved", TRUE), uid, "isActive", TRUE)
  ELSE deleteDoc(d, uid)

\* a method of AdminOps is called with uid: its write is awaited
AdminStart(n, op, uid) ==
  /\ nfcCalls[n].pc = "idle"
  /\ \A m \in NfcCalls : m < n => nfcCalls[m].pc # "idle"
  /\ nfcCalls' = [nfcCalls EXCEPT ![n] = [IdleAdminCall EXCEPT !.op = op, !.pc = "U_update", !.uid = uid]]
  /\ UNCHANGED <<dir, authVars, adminVars, appVars>>

\* the write settles: updateDoc rejects for an id of no document, deleteDoc
\* does not; a rejection is thrown again with the method's message
AdminUpdate(n) ==
  /\ nfcCalls[n].pc = "U_update"
  /\ \/ /\ nfcCalls[n].op = "deleteUser" \/ nfcCalls[n].uid \in DOMAIN dir
        /\ dir' = AdminWrite(dir, nfcCalls[n].op, nfcCalls[n].uid)
        /\ nfcCalls' = [nfcCalls EXCEPT ![n].pc = "done"]
     \/ /\ nfcCalls' = [nfcCalls EXCEPT ![n].pc = "done", ![n].err = AdminError(nfcCalls[n].op)]
        /\ UNCHANGED dir
  /\ UNCHANGED <<authVars, adminVars, appVars>>

\* the checks of a method of RightsOps on the record read, without the test
\* of the role.
RightsCheckAnyRole(op, u) ==
  IF u = NULL THEN UserNotFoundMsg ELSE NoMsg

\* the checks of a method of RightsOps on the record getUserByUid returned:
\* the message of the error thrown, NoMsg when the record passes
RightsCheck(op, u) ==
  IF u = NULL THEN UserNotFoundMsg
  ELSE IF u.role # "staff"
       THEN IF op = "grantApprovalRights" THEN "Only staff members can be granted approval rights"
            ELSE IF op = "revokeApprovalRights" THEN "Only staff members have approval rights"
            ELSE "Only staff members can have approval rights"
  ELSE NoMsg

\* the flag handed to updateStaffApprovalPermission: true, false, or
\* !user.canApproveStudents (true for a record without the field)
NewValue(op, u) ==
  IF op = "grantApprovalRights" THEN True
  ELSE IF op = "revokeApprovalRights" THEN False
  ELSE IF u.canApproveStudents = True THEN False ELSE True

\* a method of RightsOps is called with staffUid: getUserByUid is awaited
RightsStart(n, op, staffUid) ==
  /\ nfcCalls[n].pc = "idle"
  /\ \A m \in NfcCalls : m < n => nfcCalls[m].pc # "idle"
  /\ nfcCalls' = [nfcCalls EXCEPT ![n] = [IdleAdminCall EXCEPT !.op = op, !.pc = "G_lookup", !.uid = staffUid]]
  /\ UNCHANGED <<dir, authVars, adminVars, appVars>>

\* await UserService.getUserByUid(staffUid), then the checks; the catch block
\* throws the message of the error caught
RightsLookup(n) ==
  /\ nfcCalls[n].pc = "G_lookup"
  /\ \/ nfcCalls' = [nfcCalls EXCEPT ![n].pc = "done", ![n].err = FetchUserDataFailedMsg]
     \/ LET u == getUserByUid(dir, nfcCalls[n].uid)
            msg == RightsCheck(nfcCalls[n].op, u)
        IN  nfcCalls' = [nfcCalls EXCEPT ![n] =
              IF msg # NoMsg THEN [@ EXCEPT !.pc = "done", !.err = msg]
              ELSE [@ EXCEPT !.pc = "G_update", !.newValue = NewValue(nfcCalls[n].op, u)]]
  /\ UNCHANGED <<dir, authVars, adminVars, appVars>>

\* await UserService.updateStaffApprovalPermission(staffUid, newValue);
\* toggleApprovalRights returns newValue
RightsUpdate(n) ==
  /\ nfcCalls[n].pc = "G_update"
  /\ \/ /\ nfcCalls[n].uid \in DOMAIN dir
        /\ dir' = updateUser(dir, nfcCalls[n].uid, "canApproveStudents", nfcCalls[n].newValue)
        /\ nfcCalls' = [nfcCalls EXCEPT ![n].pc = "done",
             ![n].result = IF nfcCalls[n].op = "toggleApprovalRights" THEN nfcCalls[n].newValue ELSE Undefined]
     \/ /\ nfcCalls' = [nfcCalls EXCEPT ![n].pc = "done", ![n].err = UpdatePermissionsFailedMsg]
        /\ UNCHANGED dir
  /\ UNCHANGED <<authVars, adminVars, appVars>>

\* a directory of a student who awaits approval and an approved staff member
\* without the approval right
AdminDir ==
  (1 :> NewUserData(1, 1, "s1@u.edu", "C-001", "student", "CS")) @@
  (2 :> [NewUserData(2, 2, "t1@u.edu", "C-002", "staff", "CS") EXCEPT !.isApproved = TRUE])

\* the ids the calls name: the documents of AdminDir and the id of no document
AdminUids == DOMAIN AdminDir \cup {Cardinality(DOMAIN AdminDir) + 1}

\* the NFC id the administrator assigns
AdminNfcIds == {"04A1"}

InitAdmin ==
  /\ dir = AdminDir
  /\ creds = [k \in DOMAIN AdminDir |-> [email |-> AdminDir[k].email, password |-> GoodPassword]]
  /\ uidCount = Cardinality(DOMAIN AdminDir)
  /\ currentUser = NoUser
  /\ user = NULL
  /\ firebaseUser = NoUser
  /\ error = NoMsg
  /\ calls = NoCalls
  /\ listeners = {}
  /\ nfcCalls = [n \in NfcCalls |-> IdleAdminCall]
  /\ staffCalls = NoCalls
  /\ bulk = IdleBulk
  /\ verdict = NoCalls
  /\ AppUnused

\* the administrator's session makes calls on single records, or one bulk call
NextAdmin ==
  \/ \E n \in NfcCalls, op \in AdminOps, uid \in AdminUids : bulk.pc = "idle" /\ AdminStart(n, op, uid)
  \/ \E n \in NfcCalls : AdminUpdate(n)
  \/ \E n \in NfcCalls, op \in RightsOps, uid \in AdminUids : bulk.pc = "idle" /\ RightsStart(n, op, uid)
  \/ \E n \in NfcCalls : RightsLookup(n)
  \/ \E n \in NfcCalls : RightsUpdate(n)
  \/ \E n \in NfcCalls, uid \in AdminUids, nfcId \in AdminNfcIds : bulk.pc = "idle" /\ AssignStart(n, uid, nfcId)
  \/ \E n \in NfcCalls : AssignLookup(n)
  \/ \E n \in NfcCalls : AssignUpdate(n)
  \/ \E n \in NfcCalls, uid \in AdminUids : bulk.pc = "idle" /\ RemoveStart(n, uid)
  \/ \E n \in NfcCalls : RemoveUpdate(n)
  \/ /\ nfcCalls[1].pc = "idle" /\ bulk.pc = "idle"
     /\ \E op \in AdminBulkOps, uids \in BulkUids : AdminBulkStart(op, uids)
  \/ /\ nfcCalls[1].pc = "idle" /\ bulk.pc = "idle"
     /\ \E op \in StaffBulkOps, staffUser \in StaffUsers, uids \in BulkUids : StaffBulkStart(op, staffUser, uids)
  \/ StaffBulkList
  \/ \E i \in 1..MaxBulk : BulkTask(i)
  \/ BulkReturn

SpecAdmin == InitAdmin /\ [][NextAdmin]_vars

\* ------------------------------------------------------------ vocabulary
Quiescent == listeners = {} /\ \A c \in Calls : calls[c].pc \in {"idle", "done"}

Succeeded(call) == call.pc = "done" /\ call.err = NoMsg

\* call c takes a step that ends it
Ends(c) == calls[c].pc \notin {"idle", "done"} /\ calls'[c].pc = "done"

\* errors of the infrastructure: a network or directory outage
Infrastructure(raw) ==
  raw \in {AuthFailure("network-request-failed"), PlainError("Network request failed"),
           FirestoreFailure, PlainError(FetchByCardFailedMsg), PlainError(FetchUserFailedMsg)}

HoldersOfCard(d, cardNumber) == {i \in DOMAIN d : d[i].cardNumber = cardNumber}

\* canManageTarget for a staff actor: the actor is staff with the approval
\* right and record t of directory d is a student of the actor's department
StaffMayManage(staffUser, d, t) ==
  /\ staffUser.role = "staff" /\ staffUser.canApproveStudents = True
  /\ t \in DOMAIN d /\ d[t].role = "student" /\ d[t].department = staffUser.department

\* the errors of the checks of approveStudent, as opposed to a directory failure
ApprovePermissionErrors ==
  {OnlyStaffApproveMsg, NoApprovePermissionMsg, StudentNotFoundMsg, OnlyStudentsMsg, ApproveOtherDepartmentMsg}

\* record uid of directory d shows the effect of bulk method op
Applied(d, op, uid) ==
  /\ uid \in DOMAIN d
  /\ IF op \in {"approveBulk", "approveStudentsBulk"} THEN d[uid].isApproved
     ELSE IF op = "activateStudentsBulk" THEN d[uid].isActive
     ELSE ~d[uid].isActive

\* record uid of directory d is a student of the department of staffUser
InScope(d, staffUser, uid) ==
  uid \in DOMAIN d /\ d[uid].role = "student" /\ d[uid].department = staffUser.department

\* ------------------------------------------------------------------ claims
\* C1: in register, when UserService.createUser fails after the credential was
\* created, the delete of the credential is attempted next; when the delete
\* fails the sign-out is attempted next; and the error register throws (and
\* puts in the context) is the error of createUser, whatever the delete and
\* the sign-out did.
C1_RollbackThrowsCreateUserError ==
  [][\A c \in Calls :
       /\ (calls[c].pc \in {"R_check", "R_write"} /\ calls'[c].pc \notin {calls[c].pc, "R_write"}
             /\ ~Succeeded(calls'[c]))
            => /\ calls'[c].pc = "R_delete"
               /\ calls[c].fbUser \in DOMAIN creds
               /\ calls'[c].pending \in {CardExistsMsg, CreateProfileFailedMsg}
       /\ (calls[c].pc = "R_delete" /\ calls'[c] # calls[c] /\ calls[c].fbUser \in DOMAIN creds')
            => calls'[c].pc = "R_logout"
       /\ (calls[c].pc \in {"R_delete", "R_logout"} /\ Ends(c))
            => /\ calls'[c].err = calls[c].pending
               /\ error' = calls[c].pending
               /\ calls[c].pending \in {CardExistsMsg, CreateProfileFailedMsg}
    ]_vars

\* C1 witness: the only call is a register whose directory write failed, whose
\* credential survived the delete and was signed out, and which threw the
\* error of createUser.
C1_Witness ==
  \E c \in Calls :
    /\ calls[c].op = "register" /\ calls[c].pc = "done"
    /\ calls[c].raw = FirestoreFailure /\ calls[c].err = CreateProfileFailedMsg
    /\ \A b \in Calls \ {c} : calls[b].pc = "idle"
    /\ DOMAIN creds # {} /\ DOMAIN dir = {} /\ currentUser = NoUser

\* C2: a credential is created only for a registration whose card number is
\* not in the directory (the existence check comes before the creation).
C2_NoCredentialForKnownCard ==
  [][\A c \in Calls :
       (calls[c].pc = "R_create" /\ calls'[c].pc = "R_profile")
         => getUserByCardNumber(dir, calls[c].cardNumber) = NULL
    ]_vars

\* C3: no two directory records share a card number, overlapping
\* registrations included.
C3_CardNumbersUnique ==
  \A i, j \in DOMAIN dir : i # j => dir[i].cardNumber # dir[j].cardNumber

\* C4: when two registrations of one card number both pass the existence
\* check before either writes, both write: once both have succeeded the
\* directory holds two records of that card number.
C4_RaceLeavesTwoRecords ==
  \A b, c \in Calls :
    (/\ b # c
     /\ calls[b].op = "register" /\ Succeeded(calls[b])
     /\ calls[c].op = "register" /\ Succeeded(calls[c])
     /\ calls[b].cardNumber = calls[c].cardNumber)
      => Cardinality(HoldersOfCard(dir, calls[c].cardNumber)) >= 2

\* C4 witness: two registrations of one card number have both succeeded and
\* two records hold the card number.
C4_Witness ==
  \E b, c \in Calls :
    /\ b # c
    /\ calls[b].op = "register" /\ Succeeded(calls[b])
    /\ calls[c].op = "register" /\ Succeeded(calls[c])
    /\ calls[b].cardNumber = calls[c].cardNumber
    /\ \E i, j \in DOMAIN dir : i # j /\ dir[i].cardNumber = dir[j].cardNumber

\* C5: a registration submitted again after it succeeded (a record of its
\* email and card number exists when it starts) fails, outages apart, with
\* the duplicate-card-number error, and the directory then holds exactly one
\* record of the card number.
C5_ResubmissionIsDuplicateCard ==
  [][\A c \in Calls :
       (calls[c].op = "register" /\ calls[c].resubmitted /\ Ends(c)
          /\ ~Infrastructure(calls'[c].raw))
         => /\ calls'[c].err = CardExistsMsg
            /\ Cardinality(HoldersOfCard(dir', calls[c].cardNumber)) = 1
    ]_vars

\* C6: login succeeds, and makes a record the context's user, only for the
\* record of the signed-in credential and only when that record exists with
\* isActive and isApproved true; every other step of a login leaves the
\* context's user as it was or clears it.
C6_LoginOnlyForUsableRecord ==
  [][\A c \in Calls :
       (calls[c].op = "login" /\ calls'[c] # calls[c])
         => LET u == getUserByAuthUid(dir, calls[c].fbUser)
            IN  IF Succeeded(calls'[c])
                THEN /\ calls[c].fbUser # NoUser
                     /\ u # NULL /\ u.isActive /\ u.isApproved
                     /\ user' = u
                ELSE user' \in {user, NULL}
    ]_vars

\* C6 witness: a login has succeeded and the context's user is an active,
\* approved record whose credential holds the session.
C6_Witness ==
  \E c \in Calls :
    /\ calls[c].op = "login" /\ Succeeded(calls[c])
    /\ user # NULL /\ user.isActive /\ user.isApproved
    /\ currentUser = user.authUid /\ firebaseUser = user.authUid

\* C7: a login that resolved a deactivated or unapproved record signs out
\* before it surfaces the error of the blocked account: when it returns, it
\* throws that error and no session of the account is left.
C7_BlockedLoginLeavesNoSession ==
  [][\A c \in Calls :
       (calls[c].op = "login" /\ calls[c].pc = "L_logout" /\ Ends(c))
         => /\ currentUser' # calls[c].fbUser
            /\ calls'[c].err = calls[c].pending
    ]_vars

\* C8: in a quiescent state, a context user backed by the live session is a
\* record that was active and approved when it was set.
C8_ContextUserIsUsable ==
  (Quiescent /\ user # NULL /\ currentUser # NoUser /\ currentUser = user.authUid)
    => (user.isActive /\ user.isApproved)

\* C9: a login that ends because the card number is unknown, because the
\* secret is wrong, or because the credential check failed with any auth/
\* error throws the one generic message, puts it in the context, and changes
\* nothing else.
C9_LoginFailuresIndistinguishable ==
  [][\A c \in Calls :
       (/\ calls[c].op = "login" /\ calls[c].pc \in {"L_lookup", "L_signin"} /\ Ends(c)
        /\ \/ calls'[c].raw = PlainError(InvalidLoginMsg)
           \/ calls'[c].raw = AuthFailure("wrong-password")
           \/ StartsWithAuth(calls'[c].raw))
         => /\ calls'[c].err = InvalidLoginMsg
            /\ error' = InvalidLoginMsg
            /\ UNCHANGED <<dir, creds, currentUser, user, firebaseUser, listeners>>
    ]_vars

\* C9 witness: a login for a registered card number ended on a wrong secret
\* with the generic message.
C9_Witness ==
  \E c \in Calls :
    /\ calls[c].op = "login" /\ calls[c].pc = "done"
    /\ calls[c].raw = AuthFailure("wrong-password")
    /\ calls[c].err = InvalidLoginMsg
    /\ getUserByCardNumber(dir, calls[c].cardNumber) # NULL

\* C10: assignNfcId(id, nfcId), outages apart: when another record holds
\* nfcId it fails with the already-assigned error and the directory is
\* unchanged; otherwise it goes on to the update, which leaves id holding
\* nfcId and no other record changed.
C10_AssignNfcIdContract ==
  [][\A n \in NfcCalls :
       /\ (nfcCalls[n].pc = "A_lookup" /\ nfcCalls'[n] # nfcCalls[n]
             /\ nfcCalls'[n].raw # PlainError(FetchByNfcFailedMsg))
            => LET h == getUserByNfcId(dir, nfcCalls[n].nfcId)
               IN  IF h # NULL /\ h.uid # nfcCalls[n].uid
                   THEN /\ nfcCalls'[n].pc = "done"
                        /\ nfcCalls'[n].err = NfcTakenMsg
                        /\ dir' = dir
                   ELSE nfcCalls'[n].pc = "A_update"
       /\ (nfcCalls[n].pc = "A_update" /\ nfcCalls'[n] # nfcCalls[n]
             /\ nfcCalls'[n].raw = NoErr)
            => /\ nfcCalls'[n].err = NoMsg
               /\ dir'[nfcCalls[n].uid].nfcId = nfcCalls[n].nfcId
               /\ \A i \in DOMAIN dir \ {nfcCalls[n].uid} : dir'[i] = dir[i]
    ]_vars

\* C11: under any interleaving of assignNfcCard and removeNfcCard calls, each
\* non-empty nfcId is held by at most one directory record.
C11_NfcIdsUnique ==
  \A i, j \in DOMAIN dir :
    (i # j /\ dir[i].nfcId # NoNfc) => dir[i].nfcId # dir[j].nfcId

\* C12: the error assignNfcId and AdminService.assignNfcCard throw when
\* another record holds the nfcId is the already-assigned error, and it differs
\* from the error they throw when the directory call fails; the
\* duplicate-card-number error of createUser is likewise rethrown as it is and
\* differs from createUser's error for a directory failure.
C12_UniquenessErrorsVerbatim ==
  [][/\ CreateUserError(PlainError(CardExistsMsg)) = CardExistsMsg
     /\ CreateUserError(PlainError(CardExistsMsg)) # CreateUserError(FirestoreFailure)
     /\ \A n \in NfcCalls :
          (/\ nfcCalls[n].op = "assignNfcCard" /\ nfcCalls[n].pc # "done" /\ nfcCalls'[n].pc = "done"
           /\ nfcCalls'[n].raw = PlainError(NfcTakenMsg))
            => /\ nfcCalls'[n].err = NfcTakenMsg
               /\ AssignNfcIdError(nfcCalls'[n].raw) = NfcTakenMsg
               /\ nfcCalls'[n].err # AssignNfcCardError(AssignNfcIdError(PlainError(FetchByNfcFailedMsg)))
    ]_vars

\* C13: StaffService.approveStudent(staffUser, studentUid) changes the
\* directory only by setting isApproved of the target, and only when staffUser
\* is staff with canApproveStudents = true and the target exists, is a student
\* and is of staffUser's department; in every other combination the call never
\* reaches the update, ends with an error (the error of one of its checks
\* unless the read of the target failed) and leaves isApproved as it was.
C13_ApproveStudentPolicy ==
  [][\A s \in StaffCalls :
       (staffCalls'[s].op = "approveStudent" /\ staffCalls'[s] # staffCalls[s])
         => LET a == staffCalls'[s].staffUser
                t == staffCalls'[s].studentUid
            IN  /\ dir' # dir
                     => /\ StaffMayManage(a, dir, t)
                        /\ dir' = [dir EXCEPT ![t].isApproved = TRUE]
                /\ ~StaffMayManage(a, dir, t)
                     => /\ staffCalls'[s].pc \in {"S_lookup", "done"}
                        /\ dir' = dir
                        /\ staffCalls'[s].pc = "done"
                             => staffCalls'[s].err \in ApprovePermissionErrors \cup {FetchUserFailedMsg}
    ]_vars

\* C13 witness: a staff member of CS with the approval right asked to approve
\* the student of EE; the call ended with the department error and the
\* student is still unapproved.
C13_Witness ==
  \E s \in StaffCalls :
    /\ staffCalls[s].op = "approveStudent" /\ staffCalls[s].pc = "done"
    /\ staffCalls[s].staffUser.canApproveStudents = True
    /\ staffCalls[s].staffUser.department = "CS"
    /\ staffCalls[s].studentUid \in DOMAIN dir
    /\ dir[staffCalls[s].studentUid].role = "student"
    /\ dir[staffCalls[s].studentUid].department = "EE"
    /\ staffCalls[s].err = ApproveOtherDepartmentMsg
    /\ ~dir[staffCalls[s].studentUid].isApproved

\* C14: StaffService.activateStudent and deactivateStudent change a record's
\* isActive only when the actor is staff with canApproveStudents = true and the
\* target is a student of the actor's department.
C14_ActivationPolicy ==
  [][\A s \in StaffCalls :
       (staffCalls[s].op \in {"activateStudent", "deactivateStudent"} /\ dir' # dir
          /\ staffCalls'[s] # staffCalls[s])
         => StaffMayManage(staffCalls[s].staffUser, dir, staffCalls[s].studentUid)
    ]_vars

\* C15: validateUserCanApprove(actor) returns true exactly when actor is not
\* null and is an admin, or is staff with canApproveStudents = true; so it
\* returns false for null, for a student, and for staff whose flag is false
\* or unset.
C15_ValidateUserCanApprove ==
  verdict.validateUserCanApprove # {}
    => LET u == verdict.user
           expected == IF u = NULL THEN FALSE
                       ELSE \/ u.role = "admin"
                            \/ u.role = "staff" /\ u.canApproveStudents = True
       IN  verdict.validateUserCanApprove = {expected}

\* C15 witness: the predicate was called on a staff member whose
\* canApproveStudents is unset and returned false.
C15_Witness ==
  /\ verdict.user # NULL
  /\ verdict.user.role = "staff" /\ verdict.user.canApproveStudents = Undefined
  /\ verdict.validateUserCanApprove = {FALSE}

\* C16: a ...StudentsBulk method changes no record that is not a student of
\* the actor's department; when it returns its counts, every id outside that
\* set was counted as one failure without an update being issued for it, and
\* every id inside it had its update issued, which was applied unless it
\* failed.
C16_BulkStaysInDepartment ==
  [][bulk'.op \in StaffBulkOps
       => /\ \A i \in DOMAIN dir : dir'[i] # dir[i] => InScope(dir, bulk'.staffUser, i)
          /\ (bulk.pc = "B_run" /\ bulk'.pc = "done")
               => LET out == {i \in DOMAIN bulk.uids : ~InScope(dir, bulk.staffUser, bulk.uids[i])}
                      in == DOMAIN bulk.uids \ out
                  IN  /\ \A i \in out : bulk.task[i] = "skipped"
                      /\ \A i \in in : /\ bulk.task[i] \in {"ok", "failed"}
                                       /\ bulk.task[i] = "ok" => Applied(dir', bulk.op, bulk.uids[i])
                      /\ bulk'.result.failed =
                           Cardinality(out) + Cardinality({i \in in : bulk.task[i] = "failed"})
    ]_vars

\* C16 witness: approveStudentsBulk over a student of the actor's department
\* and one of another department has returned {success: 1, failed: 1}; the
\* first is approved and the second is not.
C16_Witness ==
  /\ bulk.op = "approveStudentsBulk" /\ bulk.pc = "done"
  /\ bulk.result = [success |-> 1, failed |-> 1]
  /\ \E i, j \in DOMAIN bulk.uids :
       /\ InScope(dir, bulk.staffUser, bulk.uids[i]) /\ dir[bulk.uids[i]].isApproved
       /\ bulk.uids[j] \in DOMAIN dir /\ dir[bulk.uids[j]].role = "student"
       /\ dir[bulk.uids[j]].department # bulk.staffUser.department
       /\ ~dir[bulk.uids[j]].isApproved

\* C17: a bulk method over N ids of which K failed returns
\* {success: N-K, failed: K}, in whatever order the updates settled; the
\* update has been applied to each of the N-K other ids, and
\* success + failed = N.
C17_BulkCounts ==
  (bulk.pc = "done" /\ bulk.result # NULL)
    => LET N == Len(bulk.uids)
           K == Count(bulk.task, "failed") + Count(bulk.task, "skipped")
       IN  /\ bulk.result = [success |-> N - K, failed |-> K]
           /\ bulk.result.success + bulk.result.failed = N
           /\ \A i \in DOMAIN bulk.uids :
                bulk.task[i] \notin {"failed", "skipped"} => Applied(dir, bulk.op, bulk.uids[i])

\* C17 witness: approveBulk over two ids has returned {success: 1, failed: 1}:
\* the update of the first id failed and the second id is approved.
C17_Witness ==
  /\ bulk.op = "approveBulk" /\ bulk.pc = "done"
  /\ Len(bulk.uids) = 2
  /\ bulk.task = <<"failed", "ok">>
  /\ bulk.result = [success |-> 1, failed |-> 1]
  /\ dir[bulk.uids[2]].isApproved

\* C18: a bulk method throws, instead of returning counts, only when the
\* check on the actor made before anything is awaited fails, and then no
\* record is changed; every other failure is counted.
C18_BulkThrowsOnlyOnPermission ==
  [][(bulk.pc # "done" /\ bulk'.pc = "done" /\ bulk'.err # NoMsg)
       => /\ bulk.pc = "idle"
          /\ BulkUserCheck(bulk'.op, bulk'.staffUser) = bulk'.err
          /\ dir' = dir
    ]_vars

\* C19: the record createUser writes has isActive = true, isApproved = true
\* exactly when the role is admin, and canApproveStudents = false when the
\* role is staff; the record createUser returns (which register makes the
\* context's user) has the same isActive, isApproved and canApproveStudents.
C19_CreateUserDefaults ==
  [][\A c \in Calls :
       (calls[c].pc = "R_write" /\ Succeeded(calls'[c]))
         => \E id \in DOMAIN dir' \ DOMAIN dir :
              LET written == dir'[id]
                  returned == user'
              IN  /\ written.isActive
                  /\ written.isApproved <=> (calls[c].role = "admin")
                  /\ calls[c].role = "staff" => written.canApproveStudents = False
                  /\ returned.isActive = written.isActive
                  /\ returned.isApproved = written.isApproved
                  /\ returned.canApproveStudents = written.canApproveStudents
    ]_vars

\* C20: when the creation of the credential fails, register ends there with
\* its error: createUser is not called and the directory is unchanged.
C20_NoWriteWithoutCredential ==
  [][\A c \in Calls :
       (calls[c].pc = "R_create" /\ calls'[c] # calls[c] /\ creds' = creds)
         => /\ calls'[c].pc = "done"
            /\ calls'[c].err # NoMsg
            /\ error' = calls'[c].err
            /\ dir' = dir
    ]_vars

\* C20 witness: a registration was rejected because its email is already
\* registered; the directory holds the one record of the earlier registration.
C20_Witness ==
  \E c \in Calls :
    /\ calls[c].op = "register" /\ calls[c].pc = "done"
    /\ calls[c].raw = AuthFailure("email-already-in-use")
    /\ calls[c].err = "This email is already registered"
    /\ Cardinality(DOMAIN dir) = 1

\* C21: in createUser, a failure of the upload of the profile image does not
\* end the call: createUser goes on to the directory write with no imageUrl,
\* and unless that write fails on its own the record is written without an
\* imageUrl field and the call returns the User, without an imageUrl.
C21_UploadFailureNotFatal ==
  [][\A u \in UserCalls :
       /\ (userCalls[u].pc \in {"C_upload", "C_url"} /\ userCalls'[u].upload = "failed")
            => /\ userCalls'[u].pc = "C_write"
               /\ userCalls'[u].imageUrl = Undefined
               /\ dir' = dir
       /\ (userCalls[u].pc = "C_write" /\ userCalls[u].upload = "failed" /\ userCalls'[u].pc = "done")
            => \/ userCalls'[u].raw = FirestoreFailure /\ dir' = dir
               \/ /\ userCalls'[u].err = NoMsg
                  /\ userCalls'[u].result # NULL
                  /\ userCalls'[u].result.uid = userCalls[u].userRef
                  /\ userCalls'[u].result.imageUrl = Undefined
                  /\ userCalls[u].userRef \in DOMAIN dir' \ DOMAIN dir
                  /\ "imageUrl" \notin DOMAIN dir'[userCalls[u].userRef]
                  /\ dir'[userCalls[u].userRef].cardNumber = userCalls[u].cardNumber
    ]_vars

\* a createUser call given an image has returned the User after its upload
\* failed, and the record it wrote, without imageUrl, is in the directory
C21_Witness ==
  \E u \in UserCalls :
    /\ userCalls[u].op = "createUser" /\ userCalls[u].pc = "done"
    /\ userCalls[u].imageBase64 # NoImage /\ userCalls[u].upload = "failed"
    /\ userCalls[u].err = NoMsg
    /\ userCalls[u].userRef \in DOMAIN dir
    /\ "imageUrl" \notin DOMAIN dir[userCalls[u].userRef]

\* C22: when deleteUser(id) returns without an error, record id is gone, the
\* credentials and the signed-in session are as they were, and the lookups by
\* id and by the card number and the nfcId the record held find no record.
C22_DeleteUserFrame ==
  [][\A u \in UserCalls :
       (/\ userCalls[u].pc = "D_delete" /\ userCalls'[u].pc = "done" /\ userCalls'[u].err = NoMsg
        /\ userCalls[u].uid \in DOMAIN dir)
         => LET record == dir[userCalls[u].uid]
            IN  /\ userCalls[u].uid \notin DOMAIN dir'
                /\ creds' = creds /\ currentUser' = currentUser /\ firebaseUser' = firebaseUser
                /\ getUserByUid(dir', record.uid) = NULL
                /\ getUserByCardNumber(dir', record.cardNumber) = NULL
                /\ (record.nfcId # NoNfc => getUserByNfcId(dir', record.nfcId) = NULL)
    ]_vars

\* C23: when AdminService.removeNfcCard(id) returns without an error, record
\* id holds no nfcId, so that getUserByNfcId on the value it held finds no
\* record and the value can be assigned to another record.
C23_RemoveClearsNfcId ==
  [][\A n \in NfcCalls :
       (/\ nfcCalls[n].op = "removeNfcCard" /\ nfcCalls[n].pc = "X_update"
        /\ nfcCalls'[n].pc = "done" /\ nfcCalls'[n].err = NoMsg)
         => LET held == dir[nfcCalls[n].uid].nfcId
            IN  /\ dir'[nfcCalls[n].uid].nfcId = NoNfc
                /\ (held # NoNfc => getUserByNfcId(dir', held) = NULL)
    ]_vars

\* C24: UserProfileScreen resolves by the NFC id when the route gives one,
\* making the NFC lookup only; by the card number when the route gives a card
\* number and no NFC id, making the card-number lookup only; and when the
\* route gives neither it makes no lookup and resolves no record.
C24_ResolutionOrder ==
  profile.pc # "idle" =>
    /\ profile.routeNfcId # NoParam
         => profile.lookups = <<(<<"getUserByNfcId", profile.routeNfcId>>)>>
    /\ (profile.routeNfcId = NoParam /\ profile.routeCardNumber # NoParam)
         => profile.lookups = <<(<<"getUserByCardNumber", profile.routeCardNumber>>)>>
    /\ (profile.routeNfcId = NoParam /\ profile.routeCardNumber = NoParam)
         => profile.lookups = <<>> /\ profile.user = NULL

\* C25: the scan loop navigates to the result, and the profile screen shows
\* the profile card, only for a record that passed at least the isActive
\* check: the card of a deactivated record does not get there.
C25_GrantOnlyAfterRecheck ==
  /\ landing.pc = "navigated" => landing.matchedUser.isActive
  /\ (landing.pc = "navigated" /\ profile.pc = "done" /\ ProfileView(profile) = "profile")
       => profile.user.isActive

\* C26: after a lookup that found no user or that failed, the loop is back at
\* ready and, unless it is cancelled, goes on to scan again.
C26_ErrorLeadsToScanning ==
  (landing.pc \in {"W_notfound", "W_error"}) ~> (landing.pc = "R_request" \/ ~landing.isMounted)

\* C27: the step of the loop that finds the user pushes the profile route
\* once and ends the loop; from then on the loop pushes nothing more, makes
\* no step, and requests no technology and no lookup.
C27_NavigatesOnceAndStops ==
  [][/\ landing'.pushes # landing.pushes
          => /\ landing.pc = "P_lookup" /\ landing.pushes = <<>> /\ Len(landing'.pushes) = 1
             /\ landing'.pc = "navigated"
             /\ landing'.tech = "none"
     /\ landing.pushes # <<>>
          => /\ landing'.pushes = landing.pushes
             /\ landing'.pc = "navigated"
             /\ landing'.tech = "none"
    ]_vars

\* the loop has pushed the profile route of a scanned card and has ended, and
\* the profile screen has loaded that card's record
C27_Witness ==
  /\ landing.pc = "navigated" /\ Len(landing.pushes) = 1
  /\ profile.pc = "done" /\ profile.user # NULL
  /\ profile.user.nfcId = landing.pushes[1].nfcId

\* C28: once isMounted is false the loop pushes no route, sets no status,
\* shows no alert, and starts no transport call and no directory lookup.
C28_NothingAfterCancellation ==
  [][(landing.pc # "idle" /\ ~landing.isMounted)
       => /\ landing'.pushes = landing.pushes
          /\ landing'.scanStatus = landing.scanStatus
          /\ landing'.alert = landing.alert
          /\ landing'.pc # landing.pc
               => landing'.pc \notin {"R_request", "R_tag", "M_request", "M_auth", "M_read", "P_lookup"}
          /\ landing'.tech # landing.tech => landing'.tech = "none"
    ]_vars

\* C29: the wait of the loop after an error is longer than its wait after a
\* card that is not registered.
C29_ErrorCooldownLonger ==
  /\ landing.pc = "W_error" => landing.delay > NotFoundCooldown
  /\ landing.pc = "W_notfound" => landing.delay < ErrorCooldown

\* C30: the step in which the application goes to the background leaves no
\* technology request in flight, wherever the loop is, and is no step of the
\* loop.
C30_BackgroundCancelsRead ==
  [][(landing.appState # "background" /\ landing'.appState = "background")
       => /\ landing'.tech = "none"
          /\ landing'.pc = landing.pc
    ]_vars

\* the application is in the background and the request of the scan in
\* progress has been cancelled
C30_Witness ==
  /\ landing.appState = "background"
  /\ landing.isMounted /\ landing.pc \in {"R_request", "R_tag", "M_request", "M_auth", "M_read"}
  /\ landing.tech = "none"

\* C31: the loop leaves a read for the lookup, with the status processing,
\* only when the read returned a card whose id is neither empty nor the
\* placeholder UNKNOWN, that id being the formatted id of the tag; after a
\* read that returned null or such an id the loop waits for its next scan,
\* status and processing flag untouched, and no lookup is started.
C31_LookupOnlyForCardId ==
  [][LET ReadPcs == {"R_request", "R_tag", "M_request", "M_auth", "M_read"}
         read == landing'.cardData
     IN  /\ (landing'.pc = "P_lookup" /\ landing.pc # "P_lookup")
              => /\ landing.pc \in ReadPcs
                 /\ read # NULL /\ read.cardId \notin {"", "UNKNOWN"}
                 /\ landing.tag # NULL /\ landing.tag.id # ""
                 /\ read.cardId = formatCardId(landing.tag.id)
                 /\ landing'.scanStatus = "processing"
         /\ (landing.pc \in ReadPcs /\ landing'.pc \notin ReadPcs \cup {"P_lookup"})
              => /\ landing'.pc \in {"W_next", "stopped"}
                 /\ landing'.scanStatus = landing.scanStatus
                 /\ landing'.isProcessingRef = landing.isProcessingRef
                 /\ landing'.pc = "W_next" => (read = NULL \/ read.cardId \in {"", "UNKNOWN"})
    ]_vars

\* a tag without an id was read: the card carries the placeholder and the
\* loop waits for its next scan
C31_Witness ==
  /\ landing.pc = "W_next" /\ landing.isMounted
  /\ landing.cardData # NULL /\ landing.cardData.cardId = "UNKNOWN"
  /\ landing.scanStatus = "scanning"

\* C32: a lookup method returns null for an empty identifier, without a
\* query, and for an identifier no record holds; it returns a record holding
\* the identifier otherwise, and throws its own message only after a query.
\* The loop shows the not-registered alert exactly when its lookup returned
\* null; a lookup that threw shows no alert.
C32_NullIsNotAnError ==
  [][/\ LET call == userCalls'[1]
             byNfc == call.op = "getUserByNfcId"
             holders == {i \in DOMAIN dir : IF byNfc THEN dir[i].nfcId = call.key
                                                     ELSE dir[i].cardNumber = call.key}
         IN  call.pc = "done" =>
               /\ call.key = "" => (call.result = NULL /\ call.err = NoMsg /\ ~call.queried)
               /\ call.err # NoMsg
                    => /\ call.queried /\ call.result = NULL
                       /\ call.err = IF byNfc THEN FetchByNfcFailedMsg ELSE FetchByCardFailedMsg
               /\ call.err = NoMsg
                    => IF call.key = "" \/ holders = {} THEN call.result = NULL
                       ELSE call.result \in {dir[i] : i \in holders}
     /\ landing'.alert # landing.alert
          => /\ landing.pc = "P_lookup" /\ landing'.pc = "W_notfound"
             /\ landing'.alert = NotRegisteredMsg
             /\ \A i \in DOMAIN dir : dir[i].nfcId # landing.cardData.cardId
     /\ (landing.pc = "P_lookup" /\ landing'.pc = "W_notfound") => landing'.alert = NotRegisteredMsg
     /\ (landing.pc = "P_lookup" /\ landing'.pc = "W_error") => landing'.alert = landing.alert
    ]_vars

\* a lookup of the empty identifier has returned null, and the loop waits
\* after a lookup that threw, having shown no alert
C32_Witness ==
  /\ userCalls[1].pc = "done" /\ userCalls[1].key = "" /\ userCalls[1].result = NULL
  /\ landing.pc = "W_error" /\ landing.alert = NoMsg

\* C33: an approveUser call that succeeds leaves its record with isApproved
\* true and with the isActive, role, department, cardNumber, nfcId and
\* canApproveStudents it had, and leaves every other record alone; on a
\* record already approved it changes nothing, so a second call changes
\* nothing more; a call that fails changes nothing.
C33_ApproveIdempotent ==
  [][\A n \in NfcCalls :
       (nfcCalls[n].op = "approveUser" /\ nfcCalls[n].pc = "U_update" /\ nfcCalls'[n].pc = "done")
         => LET uid == nfcCalls[n].uid
            IN  IF nfcCalls'[n].err = NoMsg
                THEN /\ uid \in DOMAIN dir /\ DOMAIN dir' = DOMAIN dir
                     /\ dir'[uid].isApproved
                     /\ \A f \in {"isActive", "role", "department", "cardNumber", "nfcId", "canApproveStudents"} :
                          dir'[uid][f] = dir[uid][f]
                     /\ \A i \in DOMAIN dir \ {uid} : dir'[i] = dir[i]
                     /\ dir[uid].isApproved => dir' = dir
                ELSE dir' = dir
    ]_vars

\* two approveUser calls on the student awaiting approval have succeeded
C33_Witness ==
  /\ \A n \in {1, 2} : nfcCalls[n].op = "approveUser" /\ nfcCalls[n].uid = 1
                        /\ nfcCalls[n].pc = "done" /\ nfcCalls[n].err = NoMsg
  /\ 1 \in DOMAIN dir /\ dir[1].isApproved
  /\ dir[1] = [AdminDir[1] EXCEPT !.isApproved = TRUE]

\* C34: a grantAccess, revokeAccess or rejectUser call that succeeds sets
\* isActive of its record (true for grantAccess, false for the others) and
\* leaves its isApproved, role, department, cardNumber, nfcId and
\* canApproveStudents, and every other record, as they were; a call that
\* fails changes nothing.
C34_ActivationFrame ==
  [][\A n \in NfcCalls :
       (nfcCalls[n].op \in {"grantAccess", "revokeAccess", "rejectUser"}
          /\ nfcCalls[n].pc = "U_update" /\ nfcCalls'[n].pc = "done")
         => LET uid == nfcCalls[n].uid
            IN  IF nfcCalls'[n].err = NoMsg
                THEN /\ uid \in DOMAIN dir /\ DOMAIN dir' = DOMAIN dir
                     /\ dir'[uid].isActive = (nfcCalls[n].op = "grantAccess")
                     /\ \A f \in {"isApproved", "role", "department", "cardNumber", "nfcId", "canApproveStudents"} :
                          dir'[uid][f] = dir[uid][f]
                     /\ \A i \in DOMAIN dir \ {uid} : dir'[i] = dir[i]
                ELSE dir' = dir
    ]_vars

\* the student awaiting approval has been rejected: the record is inactive
\* and still not approved
C34_Witness ==
  /\ nfcCalls[1].op = "rejectUser" /\ nfcCalls[1].uid = 1
  /\ nfcCalls[1].pc = "done" /\ nfcCalls[1].err = NoMsg
  /\ 1 \in DOMAIN dir /\ ~dir[1].isActive /\ ~dir[1].isApproved

\* C35: in every state canApproveStudents is true on staff records only; a
\* grantApprovalRights, revokeApprovalRights or toggleApprovalRights call
\* whose target is missing or is not a staff record ends with an error at its
\* lookup and writes nothing; and the document and the User createUser makes
\* carry no true flag, whatever the role.
C35_RightsOnlyOnStaff ==
  /\ [](\A i \in DOMAIN dir : dir[i].canApproveStudents = True => dir[i].role = "staff")
  /\ [](\A role \in Roles :
          /\ NewUserData(1, 1, "u@u.edu", "C-001", role, "CS").canApproveStudents # True
          /\ CreatedUser(1, 1, "u@u.edu", "C-001", role, "CS").canApproveStudents # True)
  /\ [][\A n \in NfcCalls :
          (nfcCalls[n].op \in RightsOps /\ nfcCalls[n].pc = "G_lookup" /\ nfcCalls'[n].pc # "G_lookup")
            => LET uid == nfcCalls[n].uid
               IN  (uid \notin DOMAIN dir \/ dir[uid].role # "staff")
                     => /\ nfcCalls'[n].pc = "done" /\ nfcCalls'[n].err # NoMsg
                        /\ dir' = dir
       ]_vars

\* the approval right was refused to the student and granted to the staff
\* member
C35_Witness ==
  /\ nfcCalls[1].op = "grantApprovalRights" /\ nfcCalls[1].uid = 1
  /\ nfcCalls[1].pc = "done" /\ nfcCalls[1].err = "Only staff members can be granted approval rights"
  /\ nfcCalls[2].op = "grantApprovalRights" /\ nfcCalls[2].uid = 2
  /\ nfcCalls[2].pc = "done" /\ nfcCalls[2].err = NoMsg
  /\ dir[1].canApproveStudents = Undefined /\ dir[2].canApproveStudents = True

\* C36: no step of a lifecycle method (approval, activation, rejection, NFC
\* assignment and removal, approval rights, and the bulk methods) takes
\* isApproved of a record from true to false, and none brings back a record
\* that was deleted or adds one.
C36_ApprovalMonotonic ==
  [][/\ DOMAIN dir' \subseteq DOMAIN dir
     /\ \A i \in DOMAIN dir' : dir[i].isApproved => dir'[i].isApproved
    ]_vars

\* the approved staff member had access revoked and the approval right
\* toggled, and is approved still
C36_Witness ==
  /\ nfcCalls[1].op = "revokeAccess" /\ nfcCalls[1].uid = 2
  /\ nfcCalls[1].pc = "done" /\ nfcCalls[1].err = NoMsg
  /\ nfcCalls[2].op = "toggleApprovalRights" /\ nfcCalls[2].uid = 2
  /\ nfcCalls[2].pc = "done" /\ nfcCalls[2].err = NoMsg
  /\ 2 \in DOMAIN dir /\ dir[2].isApproved /\ ~dir[2].isActive

\* C37: a register call that fails once its credential exists ends in its
\* compensation: the step that ends it is the deletion of the credential or
\* the sign-out that follows a deletion that failed.
C37_FailureTriggersCompensation ==
  [][\A c \in Calls :
       (calls[c].op = "register" /\ calls[c].cred # NoUser /\ calls[c].cred \in DOMAIN creds
          /\ calls[c].pc # "done" /\ calls'[c].pc = "done" /\ calls'[c].err # NoMsg)
         => calls[c].pc \in {"R_delete", "R_logout"}
    ]_vars

\* C38: a listener callback that finishes when nobody is signed in and the
\* user is null, no other callback being left, leaves the user null.
C38_NoUserAfterSignOut ==
  [][(listeners # {} /\ listeners' = {} /\ currentUser = NoUser /\ currentUser' = NoUser /\ user = NULL)
       => user' = NULL
    ]_vars

\* C39: when the first register call has returned successfully, no other call
\* was made and every listener callback has finished, the user of the context
\* is the record that call created.
C39_UserIsNewRecord ==
  (/\ calls[1].op = "register" /\ calls[1].pc = "done" /\ calls[1].err = NoMsg
   /\ \A c \in Calls \ {1} : calls[c].pc = "idle"
   /\ listeners = {} /\ userCalls = {})
    => (user # NULL /\ user.cardNumber = calls[1].cardNumber)

\* C40: when two toggleApprovalRights calls on one staff record have both
\* returned and no other call was made, the record's canApproveStudents is
\* the value it had before the two calls.
C40_ToggleTwiceRestores ==
  \A uid \in DOMAIN AdminDir :
    (/\ \A n \in 1..2 :
          /\ nfcCalls[n].op = "toggleApprovalRights" /\ nfcCalls[n].uid = uid
          /\ nfcCalls[n].pc = "done" /\ nfcCalls[n].err = NoMsg
     /\ \A n \in NfcCalls \ (1..2) : nfcCalls[n].pc = "idle")
      => dir[uid].canApproveStudents = AdminDir[uid].canApproveStudents

====
